---- MODULE Spec2Model ----
(***************************************************************************)
(* Model of the Dynamic API Gateway (POST /api/forward): API-key           *)
(* authentication, request-body validation, rate limiting, URL security    *)
(* validation and forwarding.  Strings are sequences of one-character      *)
(* strings so that startsWith / endsWith / substring / toUpperCase and the *)
(* regular expressions of the source are computed, not assumed.            *)
(***************************************************************************)
EXTENDS Integers, Sequences, FiniteSets, TLC

(***************************************************************************)
(* JavaScript string primitives                                            *)
(***************************************************************************)
UpperChars == <<"A","B","C","D","E","F","G","H","I","J","K","L","M",
                "N","O","P","Q","R","S","T","U","V","W","X","Y","Z">>
LowerChars == <<"a","b","c","d","e","f","g","h","i","j","k","l","m",
                "n","o","p","q","r","s","t","u","v","w","x","y","z">>
DigitChars == <<"0","1","2","3","4","5","6","7","8","9">>
HexChars == <<"0","1","2","3","4","5","6","7","8","9","a","b","c","d","e","f">>

Range(s) == {s[i] : i \in DOMAIN s}

IndexIn(c, s) == IF c \in Range(s) THEN CHOOSE i \in DOMAIN s : s[i] = c ELSE 0

\* String.prototype.toLowerCase / toUpperCase on one ASCII character
LowerChar(c) == IF c \in Range(UpperChars) THEN LowerChars[IndexIn(c, UpperChars)] ELSE c
UpperChar(c) == IF c \in Range(LowerChars) THEN UpperChars[IndexIn(c, LowerChars)] ELSE c

toLowerCase(s) == [i \in DOMAIN s |-> LowerChar(s[i])]
toUpperCase(s) == [i \in DOMAIN s |-> UpperChar(s[i])]

\* String.prototype.startsWith / endsWith
startsWith(s, p) == Len(s) >= Len(p) /\ SubSeq(s, 1, Len(p)) = p
endsWith(s, p) == Len(s) >= Len(p) /\ SubSeq(s, Len(s) - Len(p) + 1, Len(s)) = p

Min(a, b) == IF a < b THEN a ELSE b

\* String.prototype.substring(from, to) with 0-based, end-exclusive indices
substring(s, from, to) == SubSeq(s, Min(from, Len(s)) + 1, Min(to, Len(s)))
\* String.prototype.substring(from)
substringFrom(s, from) == SubSeq(s, Min(from, Len(s)) + 1, Len(s))

\* first / last 1-based position of character c in s, 0 when absent
FirstPos(s, c) == IF c \in Range(s) THEN CHOOSE i \in DOMAIN s : s[i] = c /\ \A j \in 1..(i - 1) : s[j] # c ELSE 0
LastPos(s, c) == IF c \in Range(s) THEN CHOOSE i \in DOMAIN s : s[i] = c /\ \A j \in (i + 1)..Len(s) : s[j] # c ELSE 0

\* String.prototype.split(c) for a one-character separator
RECURSIVE SplitOn(_, _)
SplitOn(s, c) ==
    IF FirstPos(s, c) = 0 THEN <<s>>
    ELSE <<SubSeq(s, 1, FirstPos(s, c) - 1)>> \o SplitOn(SubSeq(s, FirstPos(s, c) + 1, Len(s)), c)

IsDigit(c) == c \in Range(DigitChars)
IsHexDigit(c) == LowerChar(c) \in Range(HexChars)
IsAlpha(c) == c \in Range(UpperChars) \cup Range(LowerChars)

DigitVal(c) == IndexIn(LowerChar(c), HexChars) - 1

\* value of a digit string in radix R (digits assumed valid in R)
RECURSIVE ParseRadix(_, _)
ParseRadix(s, R) == IF s = <<>> THEN 0 ELSE ParseRadix(SubSeq(s, 1, Len(s) - 1), R) * R + DigitVal(s[Len(s)])

\* Number.prototype.toString(R) for a non-negative integer
RECURSIVE NumToStr(_, _)
NumToStr(n, R) == IF n < R THEN <<HexChars[n + 1]>> ELSE NumToStr(n \div R, R) \o <<HexChars[(n % R) + 1]>>

RECURSIVE Join(_, _)
Join(parts, sep) ==
    IF parts = <<>> THEN <<>>
    ELSE IF Len(parts) = 1 THEN parts[1]
    ELSE parts[1] \o sep \o Join(Tail(parts), sep)

RECURSIVE Pow(_, _)
Pow(b, e) == IF e = 0 THEN 1 ELSE b * Pow(b, e - 1)

(***************************************************************************)
(* new URL(input): the WHATWG URL parser of the runtime, restricted to     *)
(* ASCII input without percent-escapes, tabs or newlines.  It yields the   *)
(* protocol and the serialized hostname that validateUrl reads.  Each step *)
(* hands its intermediate result to the next as a parameter.               *)
(***************************************************************************)
SpecialSchemes == {<<"h","t","t","p">>, <<"h","t","t","p","s">>, <<"w","s">>, <<"w","s","s">>, <<"f","t","p">>}
ForbiddenHostChars == {" ", "#", "/", ":", "<", ">", "?", "@", "[", "\\", "]", "^", "|"}
ForbiddenDomainChars == ForbiddenHostChars \cup {"%"}

\* number of leading / trailing characters of s that belong to cs
LeadingIn(s, cs) ==
    IF \A i \in DOMAIN s : s[i] \in cs THEN Len(s)
    ELSE (CHOOSE i \in DOMAIN s : s[i] \notin cs /\ \A j \in 1..(i - 1) : s[j] \in cs) - 1
TrailingIn(s, cs) ==
    IF \A i \in DOMAIN s : s[i] \in cs THEN Len(s)
    ELSE Len(s) - (CHOOSE i \in DOMAIN s : s[i] \notin cs /\ \A j \in (i + 1)..Len(s) : s[j] \in cs)

StripLeft(s, cs) == SubSeq(s, LeadingIn(s, cs) + 1, Len(s))
StripRight(s, cs) == SubSeq(s, 1, Len(s) - TrailingIn(s, cs))

\* String.prototype.trim (spaces are the only whitespace of the inputs)
trim(s) == StripRight(StripLeft(s, {" "}), {" "})

\* longest prefix of s holding no character of cs
TakeUntil(s, cs) ==
    IF \A i \in DOMAIN s : s[i] \notin cs THEN s
    ELSE SubSeq(s, 1, (CHOOSE i \in DOMAIN s : s[i] \in cs /\ \A j \in 1..(i - 1) : s[j] \notin cs) - 1)

Last(seq) == seq[Len(seq)]

\* ---- IPv4 ----
NotANumber == [ok |-> FALSE, val |-> 0]

\* the digits of an IPv4 number in radix R
ParseDigits(body, R) ==
    IF \A i \in DOMAIN body : IsHexDigit(body[i]) /\ DigitVal(body[i]) < R
    THEN [ok |-> TRUE, val |-> ParseRadix(body, R)]
    ELSE NotANumber

\* the WHATWG "IPv4 number parser": [ok, val]; 0x or 0X announces radix 16,
\* another leading 0 radix 8
ParseIPv4Number(part) ==
    IF part = <<>> THEN NotANumber
    ELSE IF Len(part) >= 2 /\ part[1] = "0" /\ part[2] \in {"x", "X"} THEN ParseDigits(SubSeq(part, 3, Len(part)), 16)
    ELSE IF Len(part) >= 2 /\ part[1] = "0" THEN ParseDigits(Tail(part), 8)
    ELSE ParseDigits(part, 10)

\* one trailing empty part is dropped
DropTrailingEmpty(parts) ==
    IF Last(parts) = <<>> /\ Len(parts) > 1 THEN SubSeq(parts, 1, Len(parts) - 1) ELSE parts

\* the parts of a host split on "."
HostParts(h) == DropTrailingEmpty(SplitOn(h, "."))

IsNumberPart(last) ==
    \/ last # <<>> /\ \A i \in DOMAIN last : IsDigit(last[i])
    \/ ParseIPv4Number(last).ok

\* the WHATWG "ends in a number checker"
EndsInANumber(h) == IsNumberPart(Last(HostParts(h)))

NotAnAddress == [ok |-> FALSE, octets |-> <<>>]

\* the address of the parsed numbers: every number but the last is one octet,
\* the last fills the remaining octets (numbers[i] * 256^(3-i) summed).  A
\* single number of 2^31 or more is outside the inputs of this model.
IPv4OfNumbers(res) ==
    IF Len(res) > 4 \/ \E i \in DOMAIN res : ~res[i].ok THEN NotAnAddress
    ELSE IF \E i \in 1..(Len(res) - 1) : res[i].val > 255 THEN NotAnAddress
    ELSE IF Len(res) > 1 /\ Last(res).val >= Pow(256, 5 - Len(res)) THEN NotAnAddress
    ELSE [ok |-> TRUE,
          octets |-> [i \in 1..4 |-> IF i < Len(res) THEN res[i].val
                                     ELSE (Last(res).val \div Pow(256, 4 - i)) % 256]]

IPv4OfParts(parts) == IPv4OfNumbers([i \in DOMAIN parts |-> ParseIPv4Number(parts[i])])

\* the WHATWG "IPv4 parser": [ok, octets]
ParseIPv4(h) == IPv4OfParts(HostParts(h))

\* the WHATWG "IPv4 serializer": dotted decimal
SerializeIPv4(octets) == Join([i \in 1..4 |-> NumToStr(octets[i], 10)], <<".">>)

\* ---- IPv6 ----
NoPieces == [ok |-> FALSE, val |-> <<>>]

\* one hexadecimal piece of an IPv6 literal: 1 to 4 hex digits
ParseIPv6Piece(g) ==
    IF Len(g) \in 1..4 /\ \A i \in DOMAIN g : IsHexDigit(g[i])
    THEN [ok |-> TRUE, val |-> <<ParseRadix(g, 16)>>] ELSE NoPieces

IsIPv6Octet(q) ==
    /\ q # <<>>
    /\ Len(q) <= 3
    /\ \A i \in DOMAIN q : IsDigit(q[i])
    /\ (Len(q) > 1 => q[1] # "0")
    /\ ParseRadix(q, 10) <= 255

IPv6TailOfParts(parts) ==
    IF Len(parts) = 4 /\ \A i \in DOMAIN parts : IsIPv6Octet(parts[i])
    THEN [ok |-> TRUE,
          val |-> <<ParseRadix(parts[1], 10) * 256 + ParseRadix(parts[2], 10),
                    ParseRadix(parts[3], 10) * 256 + ParseRadix(parts[4], 10)>>]
    ELSE NoPieces

\* the dotted-decimal tail of an IPv6 literal: exactly four decimal octets,
\* no leading zero, each at most 255; yields two 16-bit pieces
ParseIPv6Tail(g) == IPv6TailOfParts(SplitOn(g, "."))

\* the pieces of the parsed groups, in order; only the last group can hold two
JoinPieces(rs) ==
    IF \E i \in DOMAIN rs : ~rs[i].ok THEN NoPieces
    ELSE IF rs = <<>> THEN [ok |-> TRUE, val |-> <<>>]
    ELSE [ok |-> TRUE, val |-> [i \in 1..(Len(rs) - 1) |-> rs[i].val[1]] \o Last(rs).val]

\* the pieces of a colon-separated run of groups; the last group may be a
\* dotted-decimal tail when allowTail holds: [ok, val]
ParseIPv6Groups(groups, allowTail) ==
    JoinPieces([i \in DOMAIN groups |->
                  IF i = Len(groups) /\ allowTail /\ "." \in Range(groups[i])
                  THEN ParseIPv6Tail(groups[i])
                  ELSE ParseIPv6Piece(groups[i])])

\* position of the first "::" in s, 0 when absent
CompressPos(s) ==
    IF \E i \in 1..(Len(s) - 1) : s[i] = ":" /\ s[i + 1] = ":"
    THEN CHOOSE i \in 1..(Len(s) - 1) :
            /\ s[i] = ":" /\ s[i + 1] = ":"
            /\ \A j \in 1..(i - 1) : ~(s[j] = ":" /\ s[j + 1] = ":")
    ELSE 0

GroupsOf(s) == IF s = <<>> THEN <<>> ELSE SplitOn(s, ":")

NoAddress6 == [ok |-> FALSE, pieces |-> <<>>]

\* an address written without "::" has exactly eight pieces
FullAddress(all) == IF all.ok /\ Len(all.val) = 8 THEN [ok |-> TRUE, pieces |-> all.val] ELSE NoAddress6

\* "::" stands for the zero pieces that bring the address to eight pieces
CompressedAddress(left, right) ==
    IF left.ok /\ right.ok /\ Len(left.val) + Len(right.val) <= 7
    THEN [ok |-> TRUE,
          pieces |-> left.val \o [i \in 1..(8 - Len(left.val) - Len(right.val)) |-> 0] \o right.val]
    ELSE NoAddress6

ParseIPv6At(s, c) ==
    IF c = 0 THEN FullAddress(ParseIPv6Groups(GroupsOf(s), TRUE))
    ELSE CompressedAddress(ParseIPv6Groups(GroupsOf(SubSeq(s, 1, c - 1)), FALSE),
                           ParseIPv6Groups(GroupsOf(SubSeq(s, c + 2, Len(s))), TRUE))

\* the WHATWG "IPv6 parser" on the text between the brackets: [ok, pieces]
\* with pieces the eight 16-bit pieces of the address
ParseIPv6(s) == ParseIPv6At(s, CompressPos(s))

\* length of the run of zero pieces starting at position i
ZeroRun(pieces, i) ==
    Cardinality({k \in i..Len(pieces) : \A j \in i..k : pieces[j] = 0})

\* start of the first longest run of zero pieces
LongestZeroRun(pieces) ==
    CHOOSE i \in DOMAIN pieces :
        /\ \A j \in DOMAIN pieces : ZeroRun(pieces, j) <= ZeroRun(pieces, i)
        /\ \A j \in 1..(i - 1) : ZeroRun(pieces, j) < ZeroRun(pieces, i)

HexPieces(pieces, from, to) ==
    Join([i \in 1..(to - from + 1) |-> NumToStr(pieces[from + i - 1], 16)], <<":">>)

SerializeIPv6At(pieces, best, run) ==
    IF run < 2 THEN HexPieces(pieces, 1, 8)
    ELSE HexPieces(pieces, 1, best - 1) \o <<":", ":">> \o HexPieces(pieces, best + run, 8)

SerializeIPv6From(pieces, best) == SerializeIPv6At(pieces, best, ZeroRun(pieces, best))

\* the WHATWG "IPv6 serializer": lower-case hex pieces, the first longest run
\* of two or more zero pieces compressed to "::"
SerializeIPv6(pieces) == SerializeIPv6From(pieces, LongestZeroRun(pieces))

\* ---- host ----
NoHost == [ok |-> FALSE, host |-> <<>>]

HostOfIPv6(v6) == IF v6.ok THEN [ok |-> TRUE, host |-> <<"[">> \o SerializeIPv6(v6.pieces) \o <<"]">>] ELSE NoHost

HostOfIPv4(v4) == IF v4.ok THEN [ok |-> TRUE, host |-> SerializeIPv4(v4.octets)] ELSE NoHost

\* a bracketed host is an IPv6 literal
ParseBracketed(input) ==
    IF Last(input) # "]" THEN NoHost ELSE HostOfIPv6(ParseIPv6(SubSeq(input, 2, Len(input) - 1)))

\* a domain (lower-cased) that ends in a number is an IPv4 address
ParseDomain(ascii) ==
    IF ascii = <<>> \/ \E i \in DOMAIN ascii : ascii[i] \in ForbiddenDomainChars THEN NoHost
    ELSE IF EndsInANumber(ascii) THEN HostOfIPv4(ParseIPv4(ascii))
    ELSE [ok |-> TRUE, host |-> ascii]

\* the WHATWG "host parser" for a special scheme: [ok, host] with host the
\* serialized host
ParseHost(input) ==
    IF input # <<>> /\ input[1] = "[" THEN ParseBracketed(input) ELSE ParseDomain(toLowerCase(input))

\* the WHATWG "opaque-host parser" for a non-special scheme
ParseOpaqueHost(input) ==
    IF input = <<>> THEN [ok |-> TRUE, host |-> <<>>]
    ELSE IF input[1] = "[" THEN ParseBracketed(input)
    ELSE IF \E i \in DOMAIN input : input[i] \in ForbiddenHostChars THEN NoHost
    ELSE [ok |-> TRUE, host |-> input]

\* ---- URL ----
IsSchemeChar(c) == IsAlpha(c) \/ IsDigit(c) \/ c \in {"+", "-", "."}

NoHostPort == [ok |-> FALSE, host |-> <<>>]

\* the port must be digits and no greater than 65535
CheckPort(host, port) ==
    IF \E i \in DOMAIN port : ~IsDigit(port[i]) THEN NoHostPort
    ELSE IF Len(port) > 5 \/ ParseRadix(port, 10) > 65535 THEN NoHostPort
    ELSE [ok |-> TRUE, host |-> host]

\* after the host comes nothing, or ":" and the port
HostThenPort(host, after) ==
    IF after = <<>> THEN [ok |-> TRUE, host |-> host]
    ELSE IF after[1] # ":" THEN NoHostPort
    ELSE CheckPort(host, Tail(after))

\* the host ends at the first ":" outside brackets, or at the closing bracket
SplitAt(hp, hostEnd) == HostThenPort(SubSeq(hp, 1, hostEnd), SubSeq(hp, hostEnd + 1, Len(hp)))

\* the host-and-port part of an authority (after the last "@"): [ok, host]
\* with host still unparsed
SplitHostPort(hp) ==
    IF hp # <<>> /\ hp[1] = "["
    THEN IF "]" \notin Range(hp) THEN NoHostPort ELSE SplitAt(hp, FirstPos(hp, "]"))
    ELSE SplitAt(hp, Len(TakeUntil(hp, {":"})))

\* new URL(input) without a base: [ok, protocol, hostname, message].  The
\* constructor throws TypeError "Invalid URL" where ok is FALSE.
InvalidURL == [ok |-> FALSE, protocol |-> <<>>, hostname |-> <<>>,
               message |-> <<"I","n","v","a","l","i","d"," ","U","R","L">>]

ParsedURL(scheme, host) ==
    IF host.ok THEN [ok |-> TRUE, protocol |-> scheme \o <<":">>, hostname |-> host.host, message |-> <<>>]
    ELSE InvalidURL

URLOfHostPort(scheme, special, hp) ==
    IF ~hp.ok THEN InvalidURL
    ELSE IF special THEN ParsedURL(scheme, ParseHost(hp.host))
    ELSE ParsedURL(scheme, ParseOpaqueHost(hp.host))

\* credentials end at the last "@"; nothing may be missing after them
URLOfAuthority(scheme, special, authority) ==
    IF authority # <<>> /\ Last(authority) = "@" THEN InvalidURL
    ELSE URLOfHostPort(scheme, special,
                       SplitHostPort(SubSeq(authority, LastPos(authority, "@") + 1, Len(authority))))

\* a special scheme skips every leading slash or backslash and its authority
\* ends at "/", "\", "?" or "#"; any other scheme has an authority only after
\* "//", ending at "/", "?" or "#"
URLOfScheme(scheme, rest) ==
    IF scheme \in SpecialSchemes
    THEN URLOfAuthority(scheme, TRUE, TakeUntil(StripLeft(rest, {"/", "\\"}), {"/", "\\", "?", "#"}))
    ELSE IF startsWith(rest, <<"/", "/">>)
    THEN URLOfAuthority(scheme, FALSE, TakeUntil(SubSeq(rest, 3, Len(rest)), {"/", "?", "#"}))
    ELSE [ok |-> TRUE, protocol |-> scheme \o <<":">>, hostname |-> <<>>, message |-> <<>>]

\* the scheme is a letter followed by letters, digits, "+", "-" or ".", up to
\* the first ":"
URLOfTrimmed(s, colon) ==
    IF colon < 2 \/ ~IsAlpha(s[1]) \/ \E i \in 1..(colon - 1) : ~IsSchemeChar(s[i])
    THEN InvalidURL
    ELSE URLOfScheme(toLowerCase(SubSeq(s, 1, colon - 1)), SubSeq(s, colon + 1, Len(s)))

URLOf(s) == URLOfTrimmed(s, FirstPos(s, ":"))

URL(input) == URLOf(trim(input))

(***************************************************************************)
(* JSON values of the request body and their JavaScript typeof/truthiness  *)
(***************************************************************************)
Undefined == [t |-> "undefined"]
Null == [t |-> "null"]
Str(s) == [t |-> "string", v |-> s]
Num(n) == [t |-> "number", v |-> n]
Obj(f) == [t |-> "object", v |-> f]
Arr(a) == [t |-> "array", v |-> a]

typeof(x) == IF x.t \in {"object", "array", "null"} THEN "object" ELSE x.t

\* !x
Falsy(x) == \/ x.t \in {"undefined", "null"}
            \/ x.t = "string" /\ x.v = <<>>
            \/ x.t = "number" /\ x.v = 0

(***************************************************************************)
(* State                                                                   *)
(***************************************************************************)
VARIABLES
    config,     \* the configuration object built at start-up (part_000:13-36)
    now,        \* Date.now(), in ticks
    req,        \* req[r]: the inbound request r: x-api-key header, ip, body
    pc,         \* pc[r]: the middleware of the /api/forward chain that runs next
    stages,     \* stages[r]: the middlewares that have run for r, in order
    res,        \* res[r]: the responses sent for r, in order
    logs,       \* logs[r]: the console/file records written while handling r
    outbound,   \* outbound[r]: the axios calls issued for r, in order
    hits,       \* the rate limiter's store: key -> [totalHits, resetTime]
    calls,      \* the store.increment calls of the rate limiter so far: [r, at, key]
    answers,    \* answers[r]: the HTTP answers axios received for r's call, in order
    idle,       \* idle[r]: how long the socket of r's call has been without activity
    process,    \* the gateway process: its environment and whether it loads, listens or has exited
    disk,       \* whether writes to the log file succeed ("ok") or throw ("failing")
    proxy       \* the /proxy/* server of index.js: its one request and the attempts made for it

vars == <<config, now, req, pc, stages, res, logs, outbound, hits, calls, answers, idle, process, disk, proxy>>


(***************************************************************************)
(* validateUrl (part_000:53-99)                                            *)
(***************************************************************************)
\* privateIpPatterns.some(pattern => pattern.test(hostname))
matchesPrivateIpPattern(hostname) ==
    \/ startsWith(hostname, <<"1", "2", "7", ".">>)                                \* /^127\./
    \/ startsWith(hostname, <<"1", "0", ".">>)                                     \* /^10\./
    \/ /\ startsWith(hostname, <<"1", "7", "2", ".">>)                             \* /^172\.(1[6-9]|2[0-9]|3[0-1])\./
       /\ Len(hostname) >= 7
       /\ \/ hostname[5] = "1" /\ hostname[6] \in {"6", "7", "8", "9"}
          \/ hostname[5] = "2" /\ IsDigit(hostname[6])
          \/ hostname[5] = "3" /\ hostname[6] \in {"0", "1"}
       /\ hostname[7] = "."
    \/ startsWith(hostname, <<"1", "9", "2", ".", "1", "6", "8", ".">>)            \* /^192\.168\./
    \/ startsWith(hostname, <<"l", "o", "c", "a", "l", "h", "o", "s", "t">>)       \* /^localhost/
    \/ startsWith(hostname, <<"0", ".", "0", ".", "0", ".", "0">>)                 \* /^0\.0\.0\.0/

\* matchesAllowed that lower-cases both sides of the exact comparison
matchesAllowedIgnoringCase(hostname, allowed) ==
    IF startsWith(allowed, <<"*", ".">>)
    THEN endsWith(hostname, substringFrom(allowed, 2))
    ELSE toLowerCase(hostname) = toLowerCase(allowed)

\* the callback of config.security.allowedDomains.some(...):
\* baseDomain = allowed.substring(2) for a "*." entry
matchesAllowed(hostname, allowed) ==
    IF startsWith(allowed, <<"*", ".">>)
    THEN endsWith(hostname, substringFrom(allowed, 2))
    ELSE hostname = allowed

isWhitelisted(hostname) ==
    \E i \in DOMAIN config.security.allowedDomains :
        matchesAllowed(hostname, config.security.allowedDomains[i])

OnlyHttpsReason == [text |-> "Only HTTPS URLs are allowed", arg |-> <<>>]
PrivateReason(hostname) == [text |-> "Private IP/hostname not allowed: ", arg |-> hostname]
WhitelistReason(hostname) == [text |-> "Domain not in whitelist: ", arg |-> hostname]
InvalidFormatReason(message) == [text |-> "Invalid URL format: ", arg |-> message]

\* httpsCheck that lets plain http through as well
httpsCheckAllowsHttp(parsedUrl) ==
    IF parsedUrl.protocol \notin {<<"h", "t", "t", "p", "s", ":">>, <<"h", "t", "t", "p", ":">>}
    THEN <<OnlyHttpsReason>> ELSE <<>>

httpsCheck(parsedUrl) ==
    IF parsedUrl.protocol # <<"h", "t", "t", "p", "s", ":">> THEN <<OnlyHttpsReason>> ELSE <<>>

\* privateCheck that spares a hostname the whitelist lists
privateCheckUnlessWhitelisted(parsedUrl) ==
    IF matchesPrivateIpPattern(parsedUrl.hostname) /\ ~isWhitelisted(parsedUrl.hostname)
    THEN <<PrivateReason(parsedUrl.hostname)>> ELSE <<>>

privateCheck(parsedUrl) ==
    IF matchesPrivateIpPattern(parsedUrl.hostname) THEN <<PrivateReason(parsedUrl.hostname)>> ELSE <<>>

whitelistCheck(parsedUrl) ==
    IF ~isWhitelisted(parsedUrl.hostname) THEN <<WhitelistReason(parsedUrl.hostname)>> ELSE <<>>

\* urlErrors that stops at the first check that fails
urlErrorsFirstOnly(parsedUrl) ==
    IF ~parsedUrl.ok THEN <<InvalidFormatReason(parsedUrl.message)>>
    ELSE IF httpsCheck(parsedUrl) # <<>> THEN httpsCheck(parsedUrl)
    ELSE IF privateCheck(parsedUrl) # <<>> THEN privateCheck(parsedUrl)
    ELSE whitelistCheck(parsedUrl)

\* the errors pushed in the try block, or by the catch when new URL throws
urlErrors(parsedUrl) ==
    IF parsedUrl.ok
    THEN httpsCheck(parsedUrl) \o privateCheck(parsedUrl) \o whitelistCheck(parsedUrl)
    ELSE <<InvalidFormatReason(parsedUrl.message)>>

\* { isValid: errors.length === 0, errors }
urlValidationOf(errors) == [isValid |-> errors = <<>>, errors |-> errors]

\* validateUrl whose catch pushes nothing
validateUrlSwallowsParseError(url) ==
    urlValidationOf(IF URL(url).ok THEN urlErrors(URL(url)) ELSE <<>>)

validateUrl(url) == urlValidationOf(urlErrors(URL(url)))


(***************************************************************************)
(* log (part_000:102-133): one record per call                             *)
(***************************************************************************)
\* The record goes to the console, then to the log file inside a try whose
\* catch reports the failure on the console (part_000:121-131): file tells
\* whether the line was appended
log(level, message, data) ==
    [level |-> level, message |-> message, data |-> data,
     file |-> IF disk = "ok" THEN "appended" ELSE "failed"]

\* a bare console.log(...): nothing goes to the file
consoleLog(data) == [level |-> "log", message |-> "console.log", data |-> data, file |-> "none"]

\* res.status(status).json(body)
Response(status, body) == [status |-> status, body |-> body]

Append2(f, r, x) == [f EXCEPT ![r] = Append(@, x)]

(***************************************************************************)
(* apiKeyAuth (part_000:137-161)                                           *)
(***************************************************************************)
\* includes() that compares the keys without regard to case
isValidApiKeyIgnoringCase(apiKey) ==
    \E i \in DOMAIN config.security.validApiKeys :
        toLowerCase(config.security.validApiKeys[i]) = toLowerCase(apiKey)

\* config.security.validApiKeys.includes(apiKey)
isValidApiKey(apiKey) == \E i \in DOMAIN config.security.validApiKeys : config.security.validApiKeys[i] = apiKey

\* apiKey.substring(0, 8) + '...'
maskedApiKey(apiKey) == substring(apiKey, 0, 8) \o <<".", ".", ".">>

\* the records written when the key is not valid (part_000:151-152)
invalidKeyLogs(rq) ==
    << consoleLog([keys |-> config.security.validApiKeys]),
       log("warn", "Invalid API Key",
           [ip |-> rq.ip, path |-> "/api/forward", apiKey |-> maskedApiKey(rq.apiKey.v)]) >>

\* apiKeyAuth that answers 401 and still calls next()
apiKeyAuthFallsThrough(r) ==
    /\ pc[r] = "apiKeyAuth"
    /\ stages' = Append2(stages, r, "apiKeyAuth")
    /\ IF Falsy(req[r].apiKey) \/ ~isValidApiKey(req[r].apiKey.v)
       THEN /\ res' = Append2(res, r, Response(401, [error |-> "Unauthorized", code |-> "INVALID_API_KEY"]))
            /\ UNCHANGED logs
       ELSE UNCHANGED <<logs, res>>
    /\ pc' = [pc EXCEPT ![r] = "validateRequest"]
    /\ UNCHANGED <<config, now, req, outbound, hits, calls, answers, idle, process, disk, proxy>>

\* apiKeyAuth whose log() lets the failed write escape: the refusal is never
\* sent and express answers 500 for the exception
apiKeyAuthLogThrows(r) ==
    /\ pc[r] = "apiKeyAuth"
    /\ stages' = Append2(stages, r, "apiKeyAuth")
    /\ IF Falsy(req[r].apiKey) \/ ~isValidApiKey(req[r].apiKey.v)
       THEN /\ logs' = Append2(logs, r, log("warn", IF Falsy(req[r].apiKey) THEN "Missing API Key" ELSE "Invalid API Key",
                                          [ip |-> req[r].ip, path |-> "/api/forward"]))
            /\ res' = Append2(res, r, IF disk = "ok"
                                      THEN Response(401, [error |-> "Unauthorized",
                                                          code |-> IF Falsy(req[r].apiKey) THEN "MISSING_API_KEY" ELSE "INVALID_API_KEY"])
                                      ELSE Response(500, [error |-> "Internal Server Error"]))
            /\ pc' = [pc EXCEPT ![r] = "sent"]
       ELSE /\ pc' = [pc EXCEPT ![r] = "validateRequest"]
            /\ UNCHANGED <<logs, res>>
    /\ UNCHANGED <<config, now, req, outbound, hits, calls, answers, idle, process, disk, proxy>>

\* apiKeyAuth that strikes a key off the list once it has admitted a request
apiKeyAuthConsumesKey(r) ==
    /\ pc[r] = "apiKeyAuth"
    /\ stages' = Append2(stages, r, "apiKeyAuth")
    /\ IF Falsy(req[r].apiKey) \/ ~isValidApiKey(req[r].apiKey.v)
       THEN /\ logs' = Append2(logs, r, log("warn", "Invalid API Key", [ip |-> req[r].ip, path |-> "/api/forward"]))
            /\ res' = Append2(res, r, Response(401, [error |-> "Unauthorized", code |-> "INVALID_API_KEY"]))
            /\ pc' = [pc EXCEPT ![r] = "sent"]
            /\ UNCHANGED config
       ELSE /\ pc' = [pc EXCEPT ![r] = "validateRequest"]
            /\ config' = [config EXCEPT !.security.validApiKeys = SelectSeq(@, LAMBDA k : k # req[r].apiKey.v)]
            /\ UNCHANGED <<logs, res>>
    /\ UNCHANGED <<now, req, outbound, hits, calls, answers, idle, process, disk, proxy>>

\* apiKeyAuth with one answer for the absent and the invalid key
apiKeyAuthOneCode(r) ==
    /\ pc[r] = "apiKeyAuth"
    /\ stages' = Append2(stages, r, "apiKeyAuth")
    /\ IF Falsy(req[r].apiKey) \/ ~isValidApiKey(req[r].apiKey.v)
       THEN /\ logs' = Append2(logs, r, log("warn", "Invalid API Key", [ip |-> req[r].ip, path |-> "/api/forward"]))
            /\ res' = Append2(res, r, Response(401, [error |-> "Unauthorized", code |-> "INVALID_API_KEY"]))
            /\ pc' = [pc EXCEPT ![r] = "sent"]
       ELSE /\ pc' = [pc EXCEPT ![r] = "validateRequest"]
            /\ UNCHANGED <<logs, res>>
    /\ UNCHANGED <<config, now, req, outbound, hits, calls, answers, idle, process, disk, proxy>>

apiKeyAuth(r) ==
    /\ pc[r] = "apiKeyAuth"
    /\ stages' = Append2(stages, r, "apiKeyAuth")
    /\ IF Falsy(req[r].apiKey)
       THEN /\ logs' = Append2(logs, r, log("warn", "Missing API Key", [ip |-> req[r].ip, path |-> "/api/forward"]))
            /\ res' = Append2(res, r, Response(401, [error |-> "Unauthorized", code |-> "MISSING_API_KEY"]))
            /\ pc' = [pc EXCEPT ![r] = "sent"]
       ELSE IF ~isValidApiKey(req[r].apiKey.v)
       THEN /\ logs' = [logs EXCEPT ![r] = @ \o invalidKeyLogs(req[r])]
            /\ res' = Append2(res, r, Response(401, [error |-> "Unauthorized", code |-> "INVALID_API_KEY"]))
            /\ pc' = [pc EXCEPT ![r] = "sent"]
       ELSE /\ pc' = [pc EXCEPT ![r] = "validateRequest"]
            /\ UNCHANGED <<logs, res>>
    /\ UNCHANGED <<config, now, req, outbound, hits, calls, answers, idle, process, disk, proxy>>

(***************************************************************************)
(* validateRequest (part_000:164-206)                                      *)
(***************************************************************************)
validMethods == <<<<"G", "E", "T">>, <<"P", "O", "S", "T">>, <<"P", "U", "T">>, <<"D", "E", "L", "E", "T", "E">>, <<"P", "A", "T", "C", "H">>>>

\* validateRequestErrors that stops at the first failed check
validateRequestFirstError(body) ==
    IF Falsy(body.originApi) \/ typeof(body.originApi) # "string"
    THEN <<"originApi is required and must be a string">>
    ELSE IF Falsy(body.path) \/ typeof(body.path) # "string"
    THEN <<"path is required and must be a string">>
    ELSE IF ~startsWith(body.path.v, <<"/">>) THEN <<"path must start with \"/\"">>
    ELSE IF Falsy(body.method) \/ typeof(body.method) # "string"
    THEN <<"method is required and must be a string">>
    ELSE IF toUpperCase(body.method.v) \notin Range(validMethods)
    THEN <<"method must be one of: GET, POST, PUT, DELETE, PATCH">>
    ELSE IF body.payload.t # "undefined" /\ typeof(body.payload) # "object"
    THEN <<"payload must be an object">>
    ELSE IF body.headers.t # "undefined" /\ typeof(body.headers) # "object"
    THEN <<"headers must be an object">>
    ELSE IF body.cookies.t # "undefined" /\ typeof(body.cookies) # "string"
    THEN <<"cookies must be a string">>
    ELSE <<>>

validateRequestErrors(body) ==
    (IF Falsy(body.originApi) \/ typeof(body.originApi) # "string"
     THEN <<"originApi is required and must be a string">> ELSE <<>>)
    \o
    (IF Falsy(body.path) \/ typeof(body.path) # "string"
     THEN <<"path is required and must be a string">>
     ELSE IF ~startsWith(body.path.v, <<"/">>) THEN <<"path must start with \"/\"">> ELSE <<>>)
    \o
    (IF Falsy(body.method) \/ typeof(body.method) # "string"
     THEN <<"method is required and must be a string">>
     ELSE IF toUpperCase(body.method.v) \notin Range(validMethods)
          THEN <<"method must be one of: GET, POST, PUT, DELETE, PATCH">> ELSE <<>>)
    \o
    (IF body.payload.t # "undefined" /\ typeof(body.payload) # "object"
     THEN <<"payload must be an object">> ELSE <<>>)
    \o
    (IF body.headers.t # "undefined" /\ typeof(body.headers) # "object"
     THEN <<"headers must be an object">> ELSE <<>>)
    \o
    (IF body.cookies.t # "undefined" /\ typeof(body.cookies) # "string"
     THEN <<"cookies must be a string">> ELSE <<>>)

\* answerErrors that sends the 400 and calls next() all the same
answerErrorsAndNext(r, errors) ==
    /\ pc' = [pc EXCEPT ![r] = "rateLimiter"]
    /\ IF Len(errors) > 0
       THEN res' = Append2(res, r, Response(400, [error |-> "Bad Request", errors |-> errors]))
       ELSE UNCHANGED res

\* the end of validateRequest: 400 with the errors, or next()
answerErrors(r, errors) ==
    IF Len(errors) > 0
    THEN /\ res' = Append2(res, r, Response(400, [error |-> "Bad Request", errors |-> errors]))
         /\ pc' = [pc EXCEPT ![r] = "sent"]
    ELSE /\ pc' = [pc EXCEPT ![r] = "rateLimiter"]
         /\ UNCHANGED res

validateRequest(r) ==
    /\ pc[r] = "validateRequest"
    /\ stages' = Append2(stages, r, "validateRequest")
    /\ answerErrors(r, validateRequestErrors(req[r].body))
    /\ UNCHANGED <<config, now, req, logs, outbound, hits, calls, answers, idle, process, disk, proxy>>


(***************************************************************************)
(* createRateLimiter (part_000:209-237) over the in-memory store of        *)
(* express-rate-limit                                                      *)
(***************************************************************************)
\* ipKeyGenerator(req): the library function takes an IP address string and
\* returns any argument that is not an IPv6 address string unchanged; it is
\* handed the request object, whose string form is "[object Object]"
ObjectObject == <<"[", "o", "b", "j", "e", "c", "t", " ", "O", "b", "j", "e", "c", "t", "]">>

\* req.body.originApi || 'unknown'
originApiOrUnknown(rq) ==
    IF Falsy(rq.body.originApi) THEN <<"u", "n", "k", "n", "o", "w", "n">> ELSE rq.body.originApi.v

\* a key is [str, obj]: the key string, or (obj # 0) the request object
\* itself, which the catch branch returns
keyOf(r, parsed) ==
    IF parsed.ok
    THEN [str |-> ObjectObject \o <<"-">> \o parsed.hostname, obj |-> 0]
    ELSE [str |-> <<>>, obj |-> r]

keyGenerator(r, rq) == keyOf(r, URL(originApiOrUnknown(rq)))

\* Math.ceil(ms / 1000)
CeilSeconds(ms) == (ms + 999) \div 1000

\* currentClient that keeps a client's window open for ever
currentClientNeverExpires(key) ==
    IF key \in DOMAIN hits
    THEN hits[key]
    ELSE [totalHits |-> 0, resetTime |-> now + config.rateLimiting.windowMs]

\* MemoryStore.increment(key): a client whose resetTime has passed starts a
\* new window
currentClient(key) ==
    IF key \in DOMAIN hits /\ hits[key].resetTime > now
    THEN hits[key]
    ELSE [totalHits |-> 0, resetTime |-> now + config.rateLimiting.windowMs]

hit(client) == [client EXCEPT !.totalHits = @ + 1]

\* increment that loses the update of a client already counted in its window
incrementUndercounts(key) ==
    IF currentClient(key).totalHits > 0 THEN currentClient(key) ELSE hit(currentClient(key))

increment(key) == hit(currentClient(key))

\* limit that lets twice maxRequests through in a window
limitAtTwiceMax(r, key, client) ==
    /\ hits' = (key :> client) @@ hits
    /\ calls' = Append(calls, [r |-> r, at |-> now, key |-> key])
    /\ IF client.totalHits > 2 * config.rateLimiting.maxRequests
       THEN /\ logs' = Append2(logs, r, log("warn", "Rate limit exceeded",
                                           [ip |-> req[r].ip, originApi |-> originApiOrUnknown(req[r])]))
            /\ res' = Append2(res, r, Response(429,
                         [error |-> "Too Many Requests",
                          limit |-> config.rateLimiting.maxRequests,
                          windowMs |-> config.rateLimiting.windowMs,
                          retryAfter |-> CeilSeconds(config.rateLimiting.windowMs)]))
            /\ pc' = [pc EXCEPT ![r] = "sent"]
       ELSE /\ pc' = [pc EXCEPT ![r] = "handler"]
            /\ UNCHANGED <<logs, res>>

\* the rate-limit middleware once the key's client record is incremented
limit(r, key, client) ==
    /\ hits' = (key :> client) @@ hits
    /\ calls' = Append(calls, [r |-> r, at |-> now, key |-> key])
    /\ IF client.totalHits > config.rateLimiting.maxRequests
       THEN /\ logs' = Append2(logs, r, log("warn", "Rate limit exceeded",
                                           [ip |-> req[r].ip, originApi |-> originApiOrUnknown(req[r])]))
            /\ res' = Append2(res, r, Response(429,
                         [error |-> "Too Many Requests",
                          limit |-> config.rateLimiting.maxRequests,
                          windowMs |-> config.rateLimiting.windowMs,
                          retryAfter |-> CeilSeconds(config.rateLimiting.windowMs)]))
            /\ pc' = [pc EXCEPT ![r] = "sent"]
       ELSE /\ pc' = [pc EXCEPT ![r] = "handler"]
            /\ UNCHANGED <<logs, res>>

limitKey(r, key) == limit(r, key, increment(key))

rateLimiter(r) ==
    /\ pc[r] = "rateLimiter"
    /\ stages' = Append2(stages, r, "rateLimiter")
    /\ limitKey(r, keyGenerator(r, req[r]))
    /\ UNCHANGED <<config, now, req, outbound, answers, idle, process, disk, proxy>>

(***************************************************************************)
(* forwardRequest (part_000:240-317)                                       *)
(***************************************************************************)
\* { ...headers }: the own properties of an object or array, none of null
Spread(x) ==
    IF x.t = "object" THEN x.v
    ELSE IF x.t = "array"
         THEN [k \in {ToString(i - 1) : i \in DOMAIN x.v} |-> x.v[CHOOSE i \in DOMAIN x.v : ToString(i - 1) = k]]
         ELSE <<>>

HasHeader(h, name) == name \in DOMAIN h /\ h[name] # ""

\* ['POST', 'PUT', 'PATCH'].includes(method.toUpperCase()) && payload
hasData(body) ==
    /\ toUpperCase(body.method.v) \in {<<"P", "O", "S", "T">>, <<"P", "U", "T">>, <<"P", "A", "T", "C", "H">>}
    /\ ~Falsy(body.payload)

\* baseHeaders in which the gateway's User-Agent replaces the caller's
baseHeadersGatewayWins(body) ==
    ("User-Agent" :> "Dynamic-API-Gateway/2.0.0")
        @@ (IF body.headers.t = "undefined" THEN <<>> ELSE Spread(body.headers))

\* { 'User-Agent': ..., ...headers } with headers = {} when undefined
baseHeaders(body) ==
    (IF body.headers.t = "undefined" THEN <<>> ELSE Spread(body.headers))
        @@ ("User-Agent" :> "Dynamic-API-Gateway/2.0.0")

\* if (cookies) headers['Cookie'] = cookies, with cookies = '' when undefined
withCookie(h, body) ==
    IF body.cookies.t # "undefined" /\ body.cookies.v # <<>> THEN ("Cookie" :> body.cookies.v) @@ h ELSE h

\* if (!headers['Content-Type']) headers['Content-Type'] = 'application/json'
withContentType(h, body) ==
    IF hasData(body) /\ ~HasHeader(h, "Content-Type")
    THEN ("Content-Type" :> "application/json") @@ h ELSE h

\* what axios sends under a header name, as a set of at most one value.
\* axios matches header names without regard to case and lets a later
\* property of config.headers replace an earlier one; the properties come in
\* the order 'User-Agent', the caller's, then those the gateway assigned
\* after the spread (added).  lower is the name in lower case.
sentHeader(h, caller, added, name, lower) ==
    IF added THEN {h[name]}
    ELSE IF lower \in DOMAIN caller THEN {caller[lower]}
    ELSE IF name \in DOMAIN h THEN {h[name]}
    ELSE {}

\* axiosConfig that joins originApi and path without the slash between them
axiosConfigDropsPathSlash(body) ==
    [method |-> toUpperCase(body.method.v),
     url |-> body.originApi.v \o Tail(body.path.v),
     rejectUnauthorized |-> ~config.ssl.acceptSelfSignedCerts,
     keepAlive |-> TRUE,
     timeout |-> config.ssl.timeout,
     headers |-> withContentType(withCookie(baseHeaders(body), body), body),
     data |-> IF hasData(body) THEN body.payload ELSE Undefined,
     startTime |-> now]

\* axiosConfig that drops the slash an originApi ends with
axiosConfigJoinsSlashes(body) ==
    [method |-> toUpperCase(body.method.v),
     url |-> (IF endsWith(body.originApi.v, <<"/">>)
             THEN substring(body.originApi.v, 0, Len(body.originApi.v) - 1)
             ELSE body.originApi.v) \o body.path.v,
     rejectUnauthorized |-> ~config.ssl.acceptSelfSignedCerts,
     keepAlive |-> TRUE,
     timeout |-> config.ssl.timeout,
     headers |-> withContentType(withCookie(baseHeaders(body), body), body),
     data |-> IF hasData(body) THEN body.payload ELSE Undefined,
     startTime |-> now]

\* the axios request configuration built from the destructured body
axiosConfig(body) ==
    [method |-> toUpperCase(body.method.v),
     url |-> body.originApi.v \o body.path.v,
     rejectUnauthorized |-> ~config.ssl.acceptSelfSignedCerts,
     keepAlive |-> TRUE,
     timeout |-> config.ssl.timeout,
     headers |-> withContentType(withCookie(baseHeaders(body), body), body),
     data |-> IF hasData(body) THEN body.payload ELSE Undefined,
     startTime |-> now]

\* log the call and issue it
issue(r, cfg) ==
    /\ logs' = Append2(logs, r, log("info", "Forwarding request", [method |-> req[r].body.method.v, url |-> cfg.url]))
    /\ outbound' = Append2(outbound, r, cfg)
    /\ stages' = [stages EXCEPT ![r] = @ \o <<"handler", "forwardRequest">>]
    /\ pc' = [pc EXCEPT ![r] = "awaitAxios"]
    /\ UNCHANGED res

\* the synchronous part of forwardRequest, up to "await axios(axiosConfig)"
forwardRequestStart(r) == issue(r, axiosConfig(req[r].body))

(***************************************************************************)
(* app.post('/api/forward', ...) handler (part_000:379-430)                *)
(***************************************************************************)
rejectUrl(r, urlValidation) ==
    /\ logs' = Append2(logs, r, log("warn", "URL validation failed",
                 [originApi |-> req[r].body.originApi.v, errors |-> urlValidation.errors]))
    /\ res' = Append2(res, r, Response(403,
                 [error |-> "Forbidden", originApi |-> req[r].body.originApi.v, reasons |-> urlValidation.errors]))
    /\ stages' = Append2(stages, r, "handler")
    /\ pc' = [pc EXCEPT ![r] = "sent"]
    /\ UNCHANGED outbound

\* if (!urlValidation.isValid) return 403, else forward
decide(r, urlValidation) ==
    IF ~urlValidation.isValid THEN rejectUrl(r, urlValidation) ELSE forwardRequestStart(r)

\* the hits after the count of key is given back
refund(key) ==
    IF key \in DOMAIN hits THEN [hits EXCEPT ![key].totalHits = @ - 1] ELSE hits

\* handler that gives the quota back to a request validateUrl refuses
handlerRefundsRefused(r) ==
    /\ pc[r] = "handler"
    /\ decide(r, validateUrl(req[r].body.originApi.v))
    /\ hits' = IF Falsy(req[r].body.originApi) \/ validateUrl(req[r].body.originApi.v).isValid
               THEN hits ELSE refund(keyGenerator(r, req[r]))
    /\ UNCHANGED <<config, now, req, calls, answers, idle, process, disk, proxy>>

\* handler without the early return on a failed URL validation
handlerForwardsAnyway(r) ==
    /\ pc[r] = "handler"
    /\ forwardRequestStart(r)
    /\ UNCHANGED <<config, now, req, hits, calls, answers, idle, process, disk, proxy>>

handler(r) ==
    /\ pc[r] = "handler"
    /\ decide(r, validateUrl(req[r].body.originApi.v))
    /\ UNCHANGED <<config, now, req, hits, calls, answers, idle, process, disk, proxy>>

\* the handler's answer to the resolved forwardRequest
answerResult(r, result) ==
    res' = Append2(res, r, Response(IF result.status # 0 THEN result.status ELSE 200,
                [success |-> result.success,
                 data |-> result.data,
                 meta |-> [originApi |-> req[r].body.originApi.v,
                           path |-> req[r].body.path.v,
                           method |-> req[r].body.method.v,
                           status |-> result.status,
                           statusText |-> result.statusText,
                           duration |-> result.duration]]))

\* complete that returns the result without the 'Request completed' record
completeWithoutRecord(r, cfg, response) ==
    /\ UNCHANGED logs
    /\ answerResult(r, [success |-> response.status >= 200 /\ response.status < 300,
                        status |-> response.status,
                        statusText |-> response.statusText,
                        data |-> response.data,
                        duration |-> now - cfg.startTime])

\* forwardRequest after the await, for the call cfg
complete(r, cfg, response) ==
    /\ logs' = Append2(logs, r, log("info", "Request completed",
                 [method |-> req[r].body.method.v, url |-> cfg.url,
                  status |-> response.status, duration |-> now - cfg.startTime]))
    /\ answerResult(r, [success |-> response.status >= 200 /\ response.status < 300,
                        status |-> response.status,
                        statusText |-> response.statusText,
                        data |-> response.data,
                        duration |-> now - cfg.startTime])

\* axios is given no maxRedirects, so its http adapter follows an answer
\* with a 3xx status and a Location header instead of resolving with it
isRedirect(response) ==
    response.status >= 300 /\ response.status < 400 /\ response.location # <<>>

\* the origin answers with a redirect: axios requests the Location and goes
\* on waiting; forwardRequest sees nothing of it
axiosFollows(r, response) ==
    /\ pc[r] = "awaitAxios"
    /\ URL(Last(outbound[r]).url).ok
    /\ isRedirect(response)
    /\ answers' = Append2(answers, r, response)
    /\ UNCHANGED <<config, now, req, pc, stages, res, logs, outbound, hits, calls, idle, process, disk, proxy>>

\* axios resolves: any status is accepted (validateStatus: () => true).
\* axios parses the url with new URL before it opens a connection, so a url
\* that does not parse is never answered: the call can only be rejected
axiosResolves(r, response) ==
    /\ pc[r] = "awaitAxios"
    /\ URL(Last(outbound[r]).url).ok
    /\ ~isRedirect(response)
    /\ answers' = Append2(answers, r, response)
    /\ complete(r, Last(outbound[r]), response)
    /\ pc' = [pc EXCEPT ![r] = "sent"]
    /\ UNCHANGED <<config, now, req, stages, outbound, hits, calls, idle, process, disk, proxy>>

\* a catch that logs the thrown object and throws it on, unanswered
answerThrownRethrows(r, error, thrown) ==
    /\ logs' = Append2(logs, r, log("error", "Failed to forward request",
                 [originApi |-> req[r].body.originApi.v, path |-> req[r].body.path.v, error |-> thrown]))
    /\ UNCHANGED res

\* the handler's catch: log the thrown object and answer 502
answerThrown(r, error, thrown) ==
    /\ logs' = [logs EXCEPT ![r] = @ \o
                 << log("error", "Request failed",
                        [method |-> req[r].body.method.v, originApi |-> req[r].body.originApi.v,
                         path |-> req[r].body.path.v, error |-> error.message, duration |-> thrown.duration]),
                    log("error", "Failed to forward request",
                        [originApi |-> req[r].body.originApi.v, path |-> req[r].body.path.v, error |-> thrown]) >>]
    /\ res' = Append2(res, r, Response(502,
                 [error |-> "Bad Gateway",
                  details |-> [error |-> IF thrown.error # "" THEN thrown.error ELSE "UNKNOWN",
                               message |-> thrown.message,
                               duration |-> thrown.duration]]))

\* forwardRequest's catch, for the call cfg
fail(r, cfg, error) ==
    answerThrown(r, error, [success |-> FALSE,
                            error |-> IF error.code # "" THEN error.code ELSE "REQUEST_FAILED",
                            message |-> error.message,
                            duration |-> now - cfg.startTime])

\* axiosRejects in which the failure of one call fails every call under way
axiosRejectsEveryCall(r, error) ==
    /\ pc[r] = "awaitAxios"
    /\ res' = [q \in DOMAIN res |->
                 IF pc[q] = "awaitAxios"
                 THEN Append(res[q], Response(502, [error |-> "Bad Gateway",
                                                     details |-> [error |-> error.code, message |-> error.message,
                                                                  duration |-> now - Last(outbound[q]).startTime]]))
                 ELSE res[q]]
    /\ pc' = [q \in DOMAIN pc |-> IF pc[q] = "awaitAxios" THEN "sent" ELSE pc[q]]
    /\ UNCHANGED <<config, now, req, stages, logs, outbound, hits, calls, answers, idle, process, disk, proxy>>

\* axiosRejects that issues the call once more after a first failure
axiosRejectsAndRetries(r, error) ==
    /\ pc[r] = "awaitAxios"
    /\ IF Len(outbound[r]) < 2
       THEN /\ outbound' = Append2(outbound, r, Last(outbound[r]))
            /\ UNCHANGED <<pc, res, logs>>
       ELSE /\ fail(r, Last(outbound[r]), error)
            /\ pc' = [pc EXCEPT ![r] = "sent"]
            /\ UNCHANGED outbound
    /\ UNCHANGED <<config, now, req, stages, hits, calls, answers, idle, process, disk, proxy>>

\* axios rejects (network error, TLS error, timeout): forwardRequest logs and
\* throws, the handler's catch answers 502
axiosRejects(r, error) ==
    /\ pc[r] = "awaitAxios"
    /\ fail(r, Last(outbound[r]), error)
    /\ pc' = [pc EXCEPT ![r] = "sent"]
    /\ UNCHANGED <<config, now, req, stages, outbound, hits, calls, answers, idle, process, disk, proxy>>

\* bytes of the origin's answer arrive on the socket of r's call before its
\* timer is due: the socket is active again
originSends(r) ==
    /\ pc[r] = "awaitAxios"
    /\ idle[r] > 0 /\ idle[r] < config.ssl.timeout
    /\ idle' = [idle EXCEPT ![r] = 0]
    /\ UNCHANGED <<config, now, req, pc, stages, res, logs, outbound, hits, calls, answers, process, disk, proxy>>

\* timeout: config.ssl.timeout (0 is no timeout): axios arms the timer of
\* the request with it, which is due once the socket has been idle that
\* long; axios then aborts the call and rejects with ECONNABORTED
timerDue(r) ==
    pc[r] = "awaitAxios" /\ config.ssl.timeout > 0 /\ idle[r] >= config.ssl.timeout

axiosTimesOut(r) ==
    /\ timerDue(r)
    /\ axiosRejects(r, [code |-> "ECONNABORTED", message |-> "timeout exceeded"])


(***************************************************************************)
(* Inputs: originApi strings, API keys, request bodies, configurations     *)
(***************************************************************************)
OriginApis == {
    <<"h", "t", "t", "p", "s", ":", "/", "/", "s", "t", "o", "r", "e", ".", "m", "i", "s", "a", ".", "l", "o", "c", "a", "l">>,   \* https://store.misa.local
    <<"h", "t", "t", "p", "s", ":", "/", "/", "m", "i", "s", "a", ".", "l", "o", "c", "a", "l">>,   \* https://misa.local
    <<"h", "t", "t", "p", "s", ":", "/", "/", "e", "v", "i", "l", "m", "i", "s", "a", ".", "l", "o", "c", "a", "l">>,   \* https://evilmisa.local
    <<"h", "t", "t", "p", "s", ":", "/", "/", "a", ".", "b", ".", "m", "i", "s", "a", ".", "l", "o", "c", "a", "l">>,   \* https://a.b.misa.local
    <<"h", "t", "t", "p", "s", ":", "/", "/", "s", "t", "o", "r", "e", ".", "m", "i", "s", "a", ".", "l", "o", "c", "a", "l", ":", "8", "4", "4", "3">>,   \* https://store.misa.local:8443
    <<"h", "t", "t", "p", "s", ":", "/", "/", "u", "s", "e", "r", "@", "s", "t", "o", "r", "e", ".", "m", "i", "s", "a", ".", "l", "o", "c", "a", "l">>,   \* https://user@store.misa.local
    <<"h", "t", "t", "p", "s", ":", "/", "/", "s", "t", "o", "r", "e", ".", "m", "i", "s", "a", ".", "l", "o", "c", "a", "l", "@", "1", "0", ".", "0", ".", "0", ".", "5">>,   \* https://store.misa.local@10.0.0.5
    <<"h", "t", "t", "p", "s", ":", "/", "/", "e", "v", "i", "l", ".", "c", "o", "m", "/", ".", "m", "i", "s", "a", ".", "l", "o", "c", "a", "l">>,   \* https://evil.com/.misa.local
    <<"h", "t", "t", "p", "s", ":", "/", "/", "e", "v", "i", "l", ".", "c", "o", "m", "?", "x", "=", ".", "m", "i", "s", "a", ".", "l", "o", "c", "a", "l">>,   \* https://evil.com?x=.misa.local
    <<"h", "t", "t", "p", "s", ":", "/", "/", "a", "p", "i", ".", "p", "a", "r", "t", "n", "e", "r", ".", "c", "o", "m">>,   \* https://api.partner.com
    <<"h", "t", "t", "p", "s", ":", "/", "/", "A", "P", "I", ".", "P", "a", "r", "t", "n", "e", "r", ".", "c", "o", "m">>,   \* https://API.Partner.com
    <<"H", "T", "T", "P", "S", ":", "/", "/", "a", "p", "i", ".", "p", "a", "r", "t", "n", "e", "r", ".", "c", "o", "m">>,   \* HTTPS://api.partner.com
    <<"h", "t", "t", "p", ":", "/", "/", "a", "p", "i", ".", "p", "a", "r", "t", "n", "e", "r", ".", "c", "o", "m">>,   \* http://api.partner.com
    <<"h", "t", "t", "p", ":", "/", "/", "s", "t", "o", "r", "e", ".", "m", "i", "s", "a", ".", "l", "o", "c", "a", "l">>,   \* http://store.misa.local
    <<"f", "t", "p", ":", "/", "/", "a", "p", "i", ".", "p", "a", "r", "t", "n", "e", "r", ".", "c", "o", "m">>,   \* ftp://api.partner.com
    <<"h", "t", "t", "p", ":", "/", "/", "1", "2", "7", ".", "0", ".", "0", ".", "1">>,   \* http://127.0.0.1
    <<"h", "t", "t", "p", "s", ":", "/", "/", "1", "2", "7", ".", "0", ".", "0", ".", "1">>,   \* https://127.0.0.1
    <<"h", "t", "t", "p", "s", ":", "/", "/", "1", "2", "7", ".", "1">>,   \* https://127.1
    <<"h", "t", "t", "p", "s", ":", "/", "/", "0", "x", "7", "f", ".", "0", ".", "0", ".", "1">>,   \* https://0x7f.0.0.1
    <<"h", "t", "t", "p", "s", ":", "/", "/", "0", "1", "7", "7", ".", "0", ".", "0", ".", "1">>,   \* https://0177.0.0.1
    <<"h", "t", "t", "p", "s", ":", "/", "/", "2", "1", "3", "0", "7", "0", "6", "4", "3", "3">>,   \* https://2130706433
    <<"h", "t", "t", "p", "s", ":", "/", "/", "1", "2", "7", ".", "0", ".", "0", ".", "1", ".">>,   \* https://127.0.0.1.
    <<"h", "t", "t", "p", "s", ":", "/", "/", "[", ":", ":", "f", "f", "f", "f", ":", "1", "2", "7", ".", "0", ".", "0", ".", "1", "]">>,   \* https://[::ffff:127.0.0.1]
    <<"h", "t", "t", "p", "s", ":", "/", "/", "[", ":", ":", "f", "f", "f", "f", ":", "1", "0", ".", "0", ".", "0", ".", "5", "]">>,   \* https://[::ffff:10.0.0.5]
    <<"h", "t", "t", "p", "s", ":", "/", "/", "[", ":", ":", "f", "f", "f", "f", ":", "c", "0", "a", "8", ":", "1", "0", "1", "]">>,   \* https://[::ffff:c0a8:101]
    <<"h", "t", "t", "p", "s", ":", "/", "/", "1", "0", ".", "0", ".", "0", ".", "5">>,   \* https://10.0.0.5
    <<"h", "t", "t", "p", "s", ":", "/", "/", "1", "0", ".", "5">>,   \* https://10.5
    <<"h", "t", "t", "p", "s", ":", "/", "/", "1", "7", "2", ".", "1", "6", ".", "0", ".", "1">>,   \* https://172.16.0.1
    <<"h", "t", "t", "p", "s", ":", "/", "/", "1", "7", "2", ".", "3", "1", ".", "2", "5", "5", ".", "2", "5", "5">>,   \* https://172.31.255.255
    <<"h", "t", "t", "p", "s", ":", "/", "/", "1", "7", "2", ".", "3", "2", ".", "0", ".", "1">>,   \* https://172.32.0.1
    <<"h", "t", "t", "p", "s", ":", "/", "/", "1", "7", "2", ".", "1", "5", ".", "0", ".", "1">>,   \* https://172.15.0.1
    <<"h", "t", "t", "p", "s", ":", "/", "/", "1", "9", "2", ".", "1", "6", "8", ".", "1", ".", "1">>,   \* https://192.168.1.1
    <<"h", "t", "t", "p", "s", ":", "/", "/", "1", "9", "2", ".", "1", "6", "8", ".", "2", "5", "7">>,   \* https://192.168.257
    <<"h", "t", "t", "p", "s", ":", "/", "/", "1", "9", "2", ".", "1", "6", "9", ".", "1", ".", "1">>,   \* https://192.169.1.1
    <<"h", "t", "t", "p", "s", ":", "/", "/", "0", ".", "0", ".", "0", ".", "0">>,   \* https://0.0.0.0
    <<"h", "t", "t", "p", "s", ":", "/", "/", "0">>,   \* https://0
    <<"h", "t", "t", "p", "s", ":", "/", "/", "l", "o", "c", "a", "l", "h", "o", "s", "t">>,   \* https://localhost
    <<"h", "t", "t", "p", "s", ":", "/", "/", "L", "O", "C", "A", "L", "H", "O", "S", "T">>,   \* https://LOCALHOST
    <<"h", "t", "t", "p", "s", ":", "/", "/", "8", ".", "8", ".", "8", ".", "8">>,   \* https://8.8.8.8
    <<"n", "o", "t", " ", "a", " ", "u", "r", "l">>,   \* not a url
    <<"h", "t", "t", "p", "s", ":", "/", "/">>,   \* https://
    <<"s", "t", "o", "r", "e", ".", "m", "i", "s", "a", ".", "l", "o", "c", "a", "l">>,   \* store.misa.local
    <<"h", "t", "t", "p", "s", ":", "/", "/", "s", "t", "o", "r", "e", ".", "m", "i", "s", "a", ".", "l", "o", "c", "a", "l", ":", "p", "o", "r", "t">>   \* https://store.misa.local:port
}

HttpsStore == <<"h", "t", "t", "p", "s", ":", "/", "/", "s", "t", "o", "r", "e", ".", "m", "i", "s", "a", ".", "l", "o", "c", "a", "l">>   \* https://store.misa.local
HttpsPartner == <<"h", "t", "t", "p", "s", ":", "/", "/", "a", "p", "i", ".", "p", "a", "r", "t", "n", "e", "r", ".", "c", "o", "m">>   \* https://api.partner.com
HttpPartner == <<"h", "t", "t", "p", ":", "/", "/", "a", "p", "i", ".", "p", "a", "r", "t", "n", "e", "r", ".", "c", "o", "m">>   \* http://api.partner.com
NotAUrl == <<"n", "o", "t", " ", "a", " ", "u", "r", "l">>   \* not a url
HttpPrivate == <<"h", "t", "t", "p", ":", "/", "/", "1", "0", ".", "0", ".", "0", ".", "5">>   \* http://10.0.0.5
StoreMisaLocal == <<"s", "t", "o", "r", "e", ".", "m", "i", "s", "a", ".", "l", "o", "c", "a", "l">>   \* store.misa.local
MisaLocal == <<"m", "i", "s", "a", ".", "l", "o", "c", "a", "l">>   \* misa.local
EvilMisaLocal == <<"e", "v", "i", "l", "m", "i", "s", "a", ".", "l", "o", "c", "a", "l">>   \* evilmisa.local
WildMisaLocal == <<"*", ".", "m", "i", "s", "a", ".", "l", "o", "c", "a", "l">>   \* *.misa.local
ApiPartnerCom == <<"a", "p", "i", ".", "p", "a", "r", "t", "n", "e", "r", ".", "c", "o", "m">>   \* api.partner.com
ApiPartnerComUpper == <<"A", "P", "I", ".", "P", "a", "r", "t", "n", "e", "r", ".", "c", "o", "m">>   \* API.Partner.com
LocalhostName == <<"l", "o", "c", "a", "l", "h", "o", "s", "t">>   \* localhost
Key1 == <<"k", "e", "y", "1">>   \* key1
SecretKey == <<"s", "e", "c", "r", "e", "t", "-", "k", "e", "y", "-", "1", "2", "3", "4", "5">>   \* secret-key-12345
WrongShort == <<"w", "r", "o", "n", "g">>   \* wrong
WrongLong == <<"w", "r", "o", "n", "g", "-", "k", "e", "y", "-", "1", "2", "3", "4", "5", "6">>   \* wrong-key-123456
Key1Upper == <<"K", "E", "Y", "1">>   \* KEY1
PathHome == <<"/", "h", "o", "m", "e">>   \* /home
PathV1 == <<"/", "v", "1">>   \* /v1
HttpsStoreSlash == <<"h", "t", "t", "p", "s", ":", "/", "/", "s", "t", "o", "r", "e", ".", "m", "i", "s", "a", ".", "l", "o", "c", "a", "l", "/">>   \* https://store.misa.local/
PathDoubleSlash == <<"/", "/", "h", "o", "m", "e">>   \* //home
SessionCookie == <<"s", "i", "d", "=", "1", ";", " ", "P", "a", "t", "h", "=", "/">>   \* sid=1; Path=/
HttpsUserStore == <<"h", "t", "t", "p", "s", ":", "/", "/", "u", "s", "e", "r", "@", "s", "t", "o", "r", "e", ".", "m", "i", "s", "a", ".", "l", "o", "c", "a", "l">>   \* https://user@store.misa.local
HttpsStoreQuery == <<"h", "t", "t", "p", "s", ":", "/", "/", "s", "t", "o", "r", "e", ".", "m", "i", "s", "a", ".", "l", "o", "c", "a", "l", "?", "u", "=">>   \* https://store.misa.local?u=
HttpsStoreNoSlashes == <<"h", "t", "t", "p", "s", ":", "s", "t", "o", "r", "e", ".", "m", "i", "s", "a", ".", "l", "o", "c", "a", "l">>   \* https:store.misa.local
HttpsStoreSpace == <<"h", "t", "t", "p", "s", ":", "/", "/", "s", "t", "o", "r", "e", ".", "m", "i", "s", "a", ".", "l", "o", "c", "a", "l", " ">>   \* https://store.misa.local 
PathAtPrivate == <<"/", "@", "1", "0", ".", "0", ".", "0", ".", "5">>   \* /@10.0.0.5
PathBackslashPrivate == <<"/", "\\", "1", "0", ".", "0", ".", "0", ".", "5">>   \* /\10.0.0.5
PathDotEvil == <<"/", ".", "e", "v", "i", "l", ".", "c", "o", "m">>   \* /.evil.com
PathPortAtPrivate == <<"/", ":", "8", "0", "@", "1", "0", ".", "0", ".", "0", ".", "5">>   \* /:80@10.0.0.5
PathNoSlash == <<"h", "o", "m", "e">>   \* home
MethodGet == <<"G", "E", "T">>   \* GET
MethodPostLower == <<"p", "o", "s", "t">>   \* post
MethodFetch == <<"F", "E", "T", "C", "H">>   \* FETCH
ClientIp == <<"2", "0", "3", ".", "0", ".", "1", "1", "3", ".", "7">>   \* 203.0.113.7
MappedLoopback == <<"[", ":", ":", "f", "f", "f", "f", ":", "7", "f", "0", "0", ":", "1", "]">>   \* [::ffff:7f00:1]
TenFive == <<"1", "0", ".", "0", ".", "0", ".", "5">>   \* 10.0.0.5
Wild168 == <<"*", ".", "1", "6", "8", ".", "1", ".", "1">>   \* *.168.1.1
AllZero == <<"0", ".", "0", ".", "0", ".", "0">>   \* 0.0.0.0
SixteenOne == <<"1", "7", "2", ".", "1", "6", ".", "0", ".", "1">>   \* 172.16.0.1
Loopback == <<"1", "2", "7", ".", "0", ".", "0", ".", "1">>   \* 127.0.0.1


\* ---- bounds ----
NumReqs == 2        \* inbound requests per behaviour
MaxTicks == 2       \* seconds the clock may advance
MaxRequests == 1    \* MAX_REQUESTS_PER_MINUTE of the modelled deployment
WindowTicks == 2    \* RATE_LIMIT_WINDOW_MS of the modelled deployment, in seconds
TimeoutTicks == 2   \* SSL_TIMEOUT of the modelled deployment, in seconds
NumWindowReqs == 3  \* inbound requests per behaviour of the rate-limit specification
MaxHops == 1        \* redirects followed per outbound call

MaxAttemptTicks == 1  \* seconds an attempt of axiosWithRetry may take
MaxRetriesArg == 4    \* largest maxRetries passed to axiosWithRetry

Reqs == 1..NumReqs
WindowReqs == 1..NumWindowReqs

\* the configuration object (part_000:13-36) for a whitelist and a key list
Config(allowedDomains, validApiKeys) ==
    [security |-> [allowedDomains |-> allowedDomains, validApiKeys |-> validApiKeys],
     rateLimiting |-> [maxRequests |-> MaxRequests, windowMs |-> WindowTicks * 1000],
     ssl |-> [acceptSelfSignedCerts |-> FALSE, timeout |-> TimeoutTicks * 1000]]

ValidApiKeys == <<Key1, SecretKey>>

\* ALLOWED_DOMAINS=*.misa.local,api.partner.com (the example of part_000:41)
ExampleConfig == Config(<<WildMisaLocal, ApiPartnerCom>>, ValidApiKeys)
\* the wildcard alone
WildcardOnlyConfig == Config(<<WildMisaLocal>>, ValidApiKeys)
\* the suffix listed next to the wildcard, and an entry written in upper case
MixedCaseConfig == Config(<<WildMisaLocal, MisaLocal, ApiPartnerComUpper>>, ValidApiKeys)
\* private and loopback hosts listed in the whitelist
PrivateListedConfig ==
    Config(<<LocalhostName, Loopback, TenFive, SixteenOne, Wild168, AllZero, MappedLoopback>>, ValidApiKeys)

Configs == {ExampleConfig, WildcardOnlyConfig, MixedCaseConfig, PrivateListedConfig}

(***************************************************************************)
(* Start-up (part_000:13-49): the lists are read from the environment and  *)
(* the process exits when one of them is empty                             *)
(***************************************************************************)
\* process.env.X || ''
orEmpty(value) == IF Falsy(value) THEN <<>> ELSE value.v

\* .split(',').map(d => d.trim()), the empty entries kept
listOfKeepingBlanks(value) ==
    [i \in DOMAIN SplitOn(value, ",") |-> trim(SplitOn(value, ",")[i])]

\* .split(',').map(d => d.trim()).filter(Boolean)
listOf(value) ==
    SelectSeq([i \in DOMAIN SplitOn(value, ",") |-> trim(SplitOn(value, ",")[i])], LAMBDA d : d # <<>>)

\* the config object of an environment
configOf(env) == Config(listOf(orEmpty(env.ALLOWED_DOMAINS)), listOf(orEmpty(env.VALID_API_KEYS)))

\* the two checks of part_000:39-49
criticalConfigMissing(cfg) ==
    Len(cfg.security.allowedDomains) = 0 \/ Len(cfg.security.validApiKeys) = 0

\* an environment from which configOf reads the lists of cfg
envOf(cfg) ==
    [ALLOWED_DOMAINS |-> Str(Join(cfg.security.allowedDomains, <<",">>)),
     VALID_API_KEYS |-> Str(Join(cfg.security.validApiKeys, <<",">>))]

\* the process once app.listen has run with the configuration cfg
listening(cfg) == [state |-> "listening", env |-> envOf(cfg)]

\* the module is evaluated: the config object is built from the environment,
\* then process.exit(1) when a list is empty, else the app is set up and
\* app.listen is called
start ==
    /\ process.state = "loading"
    /\ config' = configOf(process.env)
    /\ process' = [process EXCEPT !.state =
                      IF criticalConfigMissing(configOf(process.env)) THEN "exited" ELSE "listening"]
    /\ UNCHANGED <<now, req, pc, stages, res, logs, outbound, hits, calls, answers, idle, disk, proxy>>

BlankList == <<" ", ",", " ">>   \* " , "
OneComma == <<",">>   \* ","
OneSpace == <<" ">>   \* " "
ExampleDomains == <<"*", ".", "m", "i", "s", "a", ".", "l", "o", "c", "a", "l", ",", "a", "p", "i", ".", "p", "a", "r", "t", "n", "e", "r", ".", "c", "o", "m">>   \* "*.misa.local,api.partner.com"
PaddedDomains == <<" ", "s", "t", "o", "r", "e", ".", "m", "i", "s", "a", ".", "l", "o", "c", "a", "l", " ", ",", ",">>   \* " store.misa.local ,,"
PaddedKeys == <<"k", "e", "y", "1", ",", " ", "s", "e", "c", "r", "e", "t", "-", "k", "e", "y", "-", "1", "2", "3", "4", "5">>   \* "key1, secret-key-12345"

\* values of ALLOWED_DOMAINS and VALID_API_KEYS: unset, empty, blanks and
\* commas only, and lists with padding and empty entries
DomainsValues == {Undefined, Str(<<>>), Str(BlankList), Str(ExampleDomains), Str(PaddedDomains)}
KeysValues == {Undefined, Str(OneComma), Str(OneSpace), Str(PaddedKeys)}
Envs == [ALLOWED_DOMAINS : DomainsValues, VALID_API_KEYS : KeysValues]

\* x-api-key headers: absent, empty, valid, and invalid ones of 8 characters
\* or fewer and of more than 8
ApiKeys == {Undefined, Str(<<>>), Str(Key1), Str(SecretKey), Str(WrongShort), Str(WrongLong), Str(Key1Upper)}

Body(originApi, path, method, payload, headers, cookies) ==
    [originApi |-> originApi, path |-> path, method |-> method,
     payload |-> payload, headers |-> headers, cookies |-> cookies]

GetBody(originApi) == Body(Str(originApi), Str(PathHome), Str(MethodGet), Undefined, Undefined, Undefined)

\* bodies that fail validateRequest, with an originApi that validateUrl would
\* accept or reject
MalformedBodies == {
    Body(Str(HttpsStore), Str(PathNoSlash), Str(MethodGet), Undefined, Undefined, Undefined),
    Body(Str(HttpPrivate), Undefined, Str(MethodFetch), Num(1), Undefined, Undefined),
    Body(Undefined, Str(PathHome), Str(MethodGet), Undefined, Undefined, Undefined),
    Body(Str(NotAUrl), Str(PathHome), Str(MethodGet), Undefined, Str(PathHome), Num(0)),
    Body(Str(HttpsPartner), Str(<<>>), Num(1), Arr(<<1>>), Null, Str(<<>>)),
    Body(Num(1), Str(PathNoSlash), Str(MethodFetch), Str(PathHome), Num(1), Num(1))
}

\* originApis on a whitelisted host that end in credentials' host, a query,
\* no slashes at all or a space, and paths that would name another host if
\* they were read as part of the authority
JoinOrigins == {HttpsStore, HttpsUserStore, HttpsStoreQuery, HttpsStoreNoSlashes, HttpsStoreSpace}
JoinPaths == {PathAtPrivate, PathBackslashPrivate, PathDotEvil, PathPortAtPrivate}
JoinBodies == {Body(Str(o), Str(p), Str(MethodGet), Undefined, Undefined, Undefined) : o \in JoinOrigins, p \in JoinPaths}

\* every body of the single-request specification: one GET per originApi,
\* POSTs with an object, null and array payload and headers, a GET whose
\* originApi ends and whose path begins with slashes, and the malformed ones
AllBodies ==
    {GetBody(u) : u \in OriginApis}
    \cup {Body(Str(HttpsPartner), Str(PathV1), Str(MethodPostLower), Obj([a |-> 1]), Undefined, Undefined),
          Body(Str(HttpsPartner), Str(PathV1), Str(MethodPostLower), Null, Null, Undefined),
          Body(Str(HttpsStoreSlash), Str(PathDoubleSlash), Str(MethodGet), Undefined, Undefined, Undefined),
          Body(Str(HttpsPartner), Str(PathV1), Str(MethodPostLower), Obj(<<>>), Undefined, Undefined),
          Body(Str(HttpsPartner), Str(PathV1), Str(MethodPostLower), Obj([a |-> 1]),
               Obj("content-type" :> "text/plain"), Undefined),
          Body(Str(HttpsPartner), Str(PathV1), Str(MethodPostLower), Obj([a |-> 1]),
               Obj("Content-Type" :> "text/plain"), Undefined),
          Body(Str(HttpsPartner), Str(PathV1), Str(MethodGet), Obj([a |-> 1]), Undefined, Undefined),
          Body(Str(HttpsPartner), Str(PathV1), Str(MethodGet), Undefined,
               Obj("User-Agent" :> "curl/8"), Str(SessionCookie)),
          Body(Str(HttpsPartner), Str(PathV1), Str(MethodGet), Undefined,
               Obj(("user-agent" :> "curl/8") @@ ("X-Trace" :> "t1") @@ ("cookie" :> "old=0")), Str(SessionCookie)),
          Body(Str(HttpsPartner), Str(PathV1), Str(MethodGet), Undefined,
               Obj("X-Trace" :> "t1"), Str(<<>>)),
          Body(Str(HttpsPartner), Str(PathV1), Str(MethodPostLower), Arr(<<1>>), Arr(<<"a">>), Undefined)}
    \cup MalformedBodies

\* the inputs of the concurrent specification: a key that is valid or
\* invalid; a body that passes, fails validateRequest or fails validateUrl
FewApiKeys == {Str(Key1), Str(WrongShort)}
FewBodies == {
    GetBody(HttpsStore),
    GetBody(HttpPartner),
    Body(Str(HttpsStore), Str(PathNoSlash), Str(MethodGet), Undefined, Undefined, Undefined),
    Body(Str(HttpPrivate), Undefined, Str(MethodFetch), Num(1), Undefined, Undefined)
}

\* what the origin may answer, and how the call may fail
OriginResponses == {
    [status |-> 200, statusText |-> "OK", data |-> "ok", location |-> <<>>],
    [status |-> 301, statusText |-> "Moved Permanently", data |-> "", location |-> <<>>],
    [status |-> 302, statusText |-> "Found", data |-> "", location |-> HttpPrivate],
    [status |-> 404, statusText |-> "Not Found", data |-> "missing", location |-> <<>>],
    [status |-> 500, statusText |-> "Internal Server Error", data |-> "boom", location |-> <<>>]
}
TransportErrors == {
    [code |-> "ECONNREFUSED", message |-> "connect ECONNREFUSED"],
    [code |-> "ECONNABORTED", message |-> "timeout exceeded"],
    [code |-> "", message |-> "socket hang up"]
}

(***************************************************************************)
(* The server: requests arrive, run the middleware chain of               *)
(* app.post('/api/forward', apiKeyAuth, validateRequest, rateLimiter, ...) *)
(* and interleave at every await                                           *)
(***************************************************************************)
\* the /proxy/* server before its request arrives
NoProxyRequest ==
    [pc |-> "idle", maxRetries |-> 0, attempt |-> 0, clock |-> 0, began |-> 0, wake |-> 0,
     attempts |-> <<>>, delays |-> <<>>, res |-> <<>>]

NoRequest == [apiKey |-> Undefined, ip |-> <<>>, body |-> Body(Undefined, Undefined, Undefined, Undefined, Undefined, Undefined)]

\* the server after app.listen, before the requests rs arrive
InitRequestsOver(rs) ==
    /\ now = 0
    /\ req = [r \in rs |-> NoRequest]
    /\ pc = [r \in rs |-> "idle"]
    /\ stages = [r \in rs |-> <<>>]
    /\ res = [r \in rs |-> <<>>]
    /\ logs = [r \in rs |-> <<>>]
    /\ outbound = [r \in rs |-> <<>>]
    /\ answers = [r \in rs |-> <<>>]
    /\ idle = [r \in rs |-> 0]
    /\ hits = <<>>
    /\ calls = <<>>

InitRequests == InitRequestsOver(Reqs)

Init ==
    /\ config \in {ExampleConfig}
    /\ process = listening(config)
    /\ disk = "ok"
    /\ proxy = NoProxyRequest
    /\ InitRequests

\* express hands request r to the first middleware; requests are numbered
\* in their order of arrival
receive(r, apiKeys, bodies) ==
    /\ process.state = "listening"
    /\ pc[r] = "idle"
    /\ r > 1 => pc[r - 1] # "idle"
    /\ \E apiKey \in apiKeys, body \in bodies :
          req' = [req EXCEPT ![r] = [apiKey |-> apiKey, ip |-> ClientIp, body |-> body]]
    /\ pc' = [pc EXCEPT ![r] = "apiKeyAuth"]
    /\ UNCHANGED <<config, now, stages, res, logs, outbound, hits, calls, answers, idle, process, disk, proxy>>

Receive(r) == receive(r, FewApiKeys, FewBodies)

\* the one request of the single-request specification
ReceiveAny == receive(1, ApiKeys, AllBodies)

\* the outcomes of the concurrent specification: a 2xx and a non-2xx answer,
\* one transport failure
FewResponses == {rsp \in OriginResponses : rsp.status \in {200, 500}}
FewErrors == {err \in TransportErrors : err.code = "ECONNREFUSED"}

AxiosResolves(r) == \E response \in FewResponses : axiosResolves(r, response)

AxiosRejects(r) == \E error \in FewErrors : axiosRejects(r, error)

AxiosResolvesAny == \E response \in OriginResponses : axiosResolves(1, response)

AxiosRejectsAny == \E error \in TransportErrors : axiosRejects(1, error)

\* at most MaxHops redirects are explored
AxiosFollowsAny ==
    /\ Len(answers[1]) < MaxHops
    /\ \E response \in OriginResponses : axiosFollows(1, response)

\* a second passes: the clock reads t, the sockets of the calls under way
\* have been idle for a second more
elapse(t) ==
    /\ now' = t
    /\ idle' = [r \in DOMAIN idle |-> IF pc[r] = "awaitAxios" THEN idle[r] + 1000 ELSE idle[r]]
    /\ UNCHANGED <<config, req, pc, stages, res, logs, outbound, hits, calls, answers, process, disk, proxy>>

\* Date.now() advances by a second.  A request runs its middleware chain
\* within one second: the clock moves only while every request waits for its
\* arrival or for its origin, or is answered.
Tick ==
    /\ now < MaxTicks * 1000
    /\ \A r \in DOMAIN pc : pc[r] \in {"idle", "awaitAxios", "sent"}
    /\ elapse(now + 1000)

Next ==
    \/ \E r \in Reqs : Receive(r)
    \/ \E r \in Reqs : apiKeyAuth(r)
    \/ \E r \in Reqs : validateRequest(r)
    \/ \E r \in Reqs : rateLimiter(r)
    \/ \E r \in Reqs : handler(r)
    \/ \E r \in Reqs : AxiosResolves(r)
    \/ \E r \in Reqs : AxiosRejects(r)
    \/ Tick

Spec == Init /\ [][Next]_vars

\* one request, drawn from every input, under every configuration
InitSingle ==
    /\ config \in Configs
    /\ process = listening(config)
    /\ disk = "ok"
    /\ proxy = NoProxyRequest
    /\ InitRequests

NextSingle ==
    \/ ReceiveAny
    \/ apiKeyAuth(1)
    \/ validateRequest(1)
    \/ rateLimiter(1)
    \/ handler(1)
    \/ AxiosResolvesAny
    \/ AxiosRejectsAny
    \/ AxiosFollowsAny
    \/ Tick

SpecSingle == InitSingle /\ [][NextSingle]_vars

\* one request with a valid key whose originApi and path are joined into
\* the url of the call
ReceiveJoin == receive(1, {Str(Key1)}, JoinBodies)

InitJoin ==
    /\ config \in {ExampleConfig, PrivateListedConfig}
    /\ process = listening(config)
    /\ disk = "ok"
    /\ proxy = NoProxyRequest
    /\ InitRequests

NextJoin ==
    \/ ReceiveJoin
    \/ apiKeyAuth(1)
    \/ validateRequest(1)
    \/ rateLimiter(1)
    \/ handler(1)
    \/ AxiosResolvesAny
    \/ AxiosRejectsAny
    \/ AxiosFollowsAny
    \/ Tick

SpecJoin == InitJoin /\ [][NextJoin]_vars

\* the process from its start, under every environment, and one request
InitStart ==
    /\ process \in [state : {"loading"}, env : Envs]
    /\ config = Config(<<>>, <<>>)
    /\ disk = "ok"
    /\ proxy = NoProxyRequest
    /\ InitRequests

NextStart ==
    \/ start
    \/ Receive(1)
    \/ apiKeyAuth(1)
    \/ validateRequest(1)
    \/ rateLimiter(1)
    \/ handler(1)
    \/ AxiosResolves(1)
    \/ AxiosRejects(1)
    \/ Tick

SpecStart == InitStart /\ [][NextStart]_vars

(***************************************************************************)
(* The /proxy/* server (index.js:33-83): axiosWithRetry and its handler    *)
(***************************************************************************)
\* maxRetries = 3
maxRetriesDefault == 3

\* what the origin of an attempt does: it answers 200, it answers with an
\* error status (with a body, or with an empty one), or the connection fails
\* and the error carries no response
ProxyOutcomes == {
    [ok |-> TRUE, message |-> "", response |-> Obj([status |-> 200, data |-> Str(<<"o", "k">>)])],
    [ok |-> FALSE, message |-> "Request failed with status code 404",
     response |-> Obj([status |-> 404, data |-> Str(<<"g", "o", "n", "e">>)])],
    [ok |-> FALSE, message |-> "Request failed with status code 503",
     response |-> Obj([status |-> 503, data |-> Str(<<>>)])],
    [ok |-> FALSE, message |-> "socket hang up", response |-> Undefined] }

\* the maxRetries argument: left out, or a count
MaxRetriesArgs == {Undefined} \cup {Num(n) : n \in 1..MaxRetriesArg}

gatewayVars == <<config, now, req, pc, stages, res, logs, outbound, hits, calls, answers, idle, process, disk>>

\* a delay of one second more after each failure
delayLinear(attempt) == (attempt + 1) * 1000

\* Math.pow(2, attempt) * 1000
delay(attempt) == Pow(2, attempt) * 1000

\* the loop body that goes on to another attempt after a success
afterAttemptIgnoresSuccess(outcome, attempt, maxRetries) ==
    IF attempt = maxRetries - 1
    THEN (IF outcome.ok THEN "return" ELSE "throw")
    ELSE "wait"

\* the body of the for loop once axios(config) has settled: return the
\* response, throw the error, or wait for the next attempt
afterAttempt(outcome, attempt, maxRetries) ==
    IF outcome.ok THEN "return"
    ELSE IF attempt = maxRetries - 1 THEN "throw"
    ELSE "wait"

\* res.json(response.data)
proxyAnswer(response) == Response(200, response.v.data)

\* res.status(error.response?.status || 500).json(error.response?.data || {...})
proxyError(error) ==
    Response(IF Falsy(error.response) \/ Falsy(Num(error.response.v.status)) THEN 500 ELSE error.response.v.status,
             IF Falsy(error.response) \/ Falsy(error.response.v.data)
             THEN Obj([error |-> "Proxy error", details |-> error.message])
             ELSE error.response.v.data)

\* a request arrives at /proxy/*: the handler calls axiosWithRetry, whose
\* loop starts attempt 0
proxyReceive(maxRetries) ==
    /\ proxy.pc = "idle"
    /\ proxy' = [proxy EXCEPT !.pc = "attempt",
                              !.maxRetries = IF maxRetries = Undefined THEN maxRetriesDefault ELSE maxRetries.v,
                              !.attempt = 0,
                              !.began = proxy.clock]
    /\ UNCHANGED gatewayVars

\* await axios(config) settles with outcome; the loop returns, throws or
\* sets the timer, and the handler answers once the loop has returned or
\* thrown
axiosSettles(outcome) ==
    /\ proxy.pc = "attempt"
    /\ LET then == afterAttempt(outcome, proxy.attempt, proxy.maxRetries)
           ended == [n |-> proxy.attempt, began |-> proxy.began, ended |-> proxy.clock, outcome |-> outcome]
       IN  proxy' = IF then = "return"
                    THEN [proxy EXCEPT !.pc = "done", !.attempts = Append(@, ended),
                                       !.res = Append(@, proxyAnswer(outcome.response))]
                    ELSE IF then = "throw"
                    THEN [proxy EXCEPT !.pc = "done", !.attempts = Append(@, ended),
                                       !.res = Append(@, proxyError(outcome))]
                    ELSE [proxy EXCEPT !.pc = "sleep", !.attempts = Append(@, ended),
                                       !.delays = Append(@, delay(proxy.attempt)),
                                       !.wake = proxy.clock + delay(proxy.attempt)]
    /\ UNCHANGED gatewayVars

\* the timer of setTimeout(resolve, delay) fires: attempt++ and, while
\* attempt < maxRetries, the next attempt; past the loop the function
\* returns undefined and the handler, reading response.data, answers 500
timerFires ==
    /\ proxy.pc = "sleep"
    /\ proxy.clock >= proxy.wake
    /\ proxy' = IF proxy.attempt + 1 < proxy.maxRetries
                THEN [proxy EXCEPT !.pc = "attempt", !.attempt = @ + 1, !.began = proxy.clock]
                ELSE [proxy EXCEPT !.pc = "done", !.attempt = @ + 1,
                                   !.res = Append(@, proxyError([message |-> "Cannot read properties of undefined",
                                                                 response |-> Undefined]))]
    /\ UNCHANGED gatewayVars

\* a second passes while an attempt is under way or the timer is not due;
\* a due timer fires before the clock moves on
proxyTick ==
    /\ \/ proxy.pc = "attempt" /\ proxy.clock - proxy.began < MaxAttemptTicks * 1000
       \/ proxy.pc = "sleep" /\ proxy.clock < proxy.wake
    /\ proxy' = [proxy EXCEPT !.clock = @ + 1000]
    /\ UNCHANGED gatewayVars

\* the gateway at rest beside the /proxy/* server
InitProxy ==
    /\ config = ExampleConfig
    /\ process = listening(config)
    /\ disk = "ok"
    /\ proxy = NoProxyRequest
    /\ InitRequests

NextProxy ==
    \/ \E maxRetries \in MaxRetriesArgs : proxyReceive(maxRetries)
    \/ \E outcome \in ProxyOutcomes : axiosSettles(outcome)
    \/ timerFires
    \/ proxyTick

SpecProxy == InitProxy /\ [][NextProxy]_vars

\* two requests, a limit that admits both, and a log file whose writes
\* succeed or fail from one moment to the next
SinkReqs == {1, 2}

SinkConfig == [ExampleConfig EXCEPT !.rateLimiting.maxRequests = Cardinality(SinkReqs)]

InitSink ==
    /\ config = SinkConfig
    /\ process = listening(config)
    /\ disk \in {"ok", "failing"}
    /\ proxy = NoProxyRequest
    /\ InitRequestsOver(SinkReqs)

\* the log file becomes unwritable, or writable again
diskTurns ==
    /\ disk' = IF disk = "ok" THEN "failing" ELSE "ok"
    /\ UNCHANGED <<config, now, req, pc, stages, res, logs, outbound, hits, calls, answers, idle, process, proxy>>

NextSink ==
    \/ diskTurns
    \/ \E r \in SinkReqs : Receive(r)
    \/ \E r \in SinkReqs : apiKeyAuth(r)
    \/ \E r \in SinkReqs : validateRequest(r)
    \/ \E r \in SinkReqs : rateLimiter(r)
    \/ \E r \in SinkReqs : handler(r)
    \/ \E r \in SinkReqs : AxiosResolves(r)
    \/ \E r \in SinkReqs : AxiosRejects(r)
    \/ Tick

SpecSink == InitSink /\ [][NextSink]_vars

\* the requests of the rate-limit specification: two callers, two hostnames
\* and an originApi that does not parse
WindowApiKeys == {Str(Key1), Str(SecretKey)}
WindowBodies == {GetBody(HttpsStore), GetBody(HttpsPartner), GetBody(NotAUrl)}

InitWindow ==
    /\ config \in {ExampleConfig}
    /\ process = listening(config)
    /\ disk = "ok"
    /\ proxy = NoProxyRequest
    /\ InitRequestsOver(WindowReqs)

\* the requests of the rate-limit specification arrive one after the other,
\* each after the earlier ones are answered (Spec has the concurrent ones)
ReceiveInTurn(r) ==
    /\ \A q \in DOMAIN pc : pc[q] \in {"idle", "sent"}
    /\ receive(r, WindowApiKeys, WindowBodies)

OriginAnswers(r) == \E response \in {rsp \in OriginResponses : rsp.status = 200} : axiosResolves(r, response)

NextWindow ==
    \/ \E r \in WindowReqs : ReceiveInTurn(r)
    \/ \E r \in WindowReqs : apiKeyAuth(r)
    \/ \E r \in WindowReqs : validateRequest(r)
    \/ \E r \in WindowReqs : rateLimiter(r)
    \/ \E r \in WindowReqs : handler(r)
    \/ \E r \in WindowReqs : OriginAnswers(r)
    \/ Tick

SpecWindow == InitWindow /\ [][NextWindow]_vars

\* one request and an origin that may answer, fail, stay silent or keep
\* sending.  The clock stops being read at the horizon; time goes on passing
\* for the sockets, and a timer that is due fires before more time passes.
TickLive ==
    /\ \A r \in DOMAIN pc : pc[r] \in {"idle", "awaitAxios", "sent"} /\ ~timerDue(r)
    /\ now < MaxTicks * 1000 \/ \E r \in DOMAIN pc : pc[r] = "awaitAxios"
    /\ elapse(IF now < MaxTicks * 1000 THEN now + 1000 ELSE now)

NextLive ==
    \/ Receive(1)
    \/ apiKeyAuth(1)
    \/ validateRequest(1)
    \/ rateLimiter(1)
    \/ handler(1)
    \/ AxiosResolves(1)
    \/ AxiosRejects(1)
    \/ originSends(1)
    \/ axiosTimesOut(1)
    \/ TickLive

\* time passes and a timer that is due fires; nothing is assumed of the
\* origin
SpecLive == Init /\ [][NextLive]_vars /\ WF_vars(TickLive) /\ WF_vars(axiosTimesOut(1))


(***************************************************************************)
(* Properties                                                              *)
(***************************************************************************)
StageOrder == <<"apiKeyAuth", "validateRequest", "rateLimiter", "handler", "forwardRequest">>

Ran(r, stage) == stage \in Range(stages[r])

Statuses(r) == {res[r][i].status : i \in DOMAIN res[r]}

Received(r) == pc[r] # "idle"

OriginOf(r) == URL(req[r].body.originApi.v)

\* validateUrl has run for r on an originApi that parses
UrlChecked(r) == Ran(r, "handler") /\ OriginOf(r).ok

\* the reasons of the 403 answer of r, empty when r was not answered 403
Reasons(r) == IF res[r] # <<>> /\ res[r][1].status = 403 THEN Range(res[r][1].body.reasons) ELSE {}

\* C1: an outbound call is issued only for a request that passed all four
\* admission stages: its key is valid, its body is well-formed, the rate
\* limiter and validateUrl let it through, and none of them answered it.
OutboundOnlyAfterAdmission ==
    \A r \in Reqs :
        outbound[r] # <<>> =>
            /\ SubSeq(stages[r], 1, 3) = SubSeq(StageOrder, 1, 3)
            /\ ~Falsy(req[r].apiKey) /\ req[r].apiKey.v \in Range(config.security.validApiKeys)
            /\ validateRequestErrors(req[r].body) = <<>>
            /\ validateUrl(req[r].body.originApi.v).isValid
            /\ Statuses(r) \cap {401, 400, 429, 403} = {}

\* a call went out for one request while another request was turned away
OutboundAndRejection ==
    \E r, q \in Reqs :
        /\ outbound[r] # <<>> /\ Statuses(r) = {200}
        /\ pc[q] = "sent" /\ outbound[q] = <<>> /\ Statuses(q) \cap {401, 400, 429, 403} # {}

\* C2: the stages run in the order apiKeyAuth, validateRequest, rateLimiter,
\* handler (validateUrl), forwardRequest; a rejected request was answered by
\* the first stage that fails it (401 before 400 before 429 before 403), that
\* stage is the last one that ran, and it got that one answer only.
FirstFailingStageAnswers ==
    \A r \in Reqs :
        LET authFails == Falsy(req[r].apiKey) \/ req[r].apiKey.v \notin Range(config.security.validApiKeys)
            shapeFails == validateRequestErrors(req[r].body) # <<>>
            urlFails == ~validateUrl(req[r].body.originApi.v).isValid
        IN  /\ stages[r] = SubSeq(StageOrder, 1, Len(stages[r]))
            /\ Len(res[r]) <= 1
            /\ pc[r] = "sent" =>
                  /\ Len(res[r]) = 1
                  /\ IF authFails THEN Statuses(r) = {401} /\ Len(stages[r]) = 1
                     ELSE IF shapeFails THEN Statuses(r) = {400} /\ Len(stages[r]) = 2
                     ELSE IF 429 \in Statuses(r) THEN Len(stages[r]) = 3
                     ELSE IF urlFails THEN Statuses(r) = {403} /\ Len(stages[r]) = 4
                     ELSE Len(stages[r]) = 5 /\ Statuses(r) \cap {401, 400, 429, 403} = {}

\* two requests with the same originApi, one that validateUrl refuses: the
\* first was answered 403 by the handler, the second 429 by the rate limiter
\* before validateUrl ever ran on it
EarlierStageWins ==
    \E q, r \in Reqs :
        /\ req[q].body = req[r].body
        /\ Statuses(q) = {403}
        /\ Statuses(r) = {429} /\ ~Ran(r, "handler")
        /\ ~validateUrl(req[r].body.originApi.v).isValid

\* the hostname validateUrl read from the originApi of r
Hostname(r) == OriginOf(r).hostname

\* the whitelist of the running configuration
Whitelist == Range(config.security.allowedDomains)

IsWildcard(entry) == startsWith(entry, <<"*", ".">>)

\* the whitelist check let r through: validateUrl ran on a parsed originApi
\* and gave no whitelist reason
WhitelistAccepted(r) == UrlChecked(r) /\ WhitelistReason(Hostname(r)) \notin Reasons(r)

\* r was answered 403 with that reason and nothing was dialled
RefusedWith(r, reason) == Statuses(r) = {403} /\ reason \in Reasons(r) /\ outbound[r] = <<>>

\* a dotted-decimal address of four octets, each 0..255, as [ok, octets]
QuadOfParts(parts) ==
    IF /\ Len(parts) = 4
       /\ \A i \in DOMAIN parts :
             /\ Len(parts[i]) \in 1..3
             /\ \A j \in DOMAIN parts[i] : IsDigit(parts[i][j])
             /\ ParseRadix(parts[i], 10) <= 255
    THEN [ok |-> TRUE, octets |-> [i \in 1..4 |-> ParseRadix(parts[i], 10)]]
    ELSE [ok |-> FALSE, octets |-> <<>>]

DottedQuad(h) == QuadOfParts(SplitOn(h, "."))

\* 127.0.0.0/8, 10.0.0.0/8, 172.16.0.0/12, 192.168.0.0/16 and 0.0.0.0
InBlockedRange(o) ==
    \/ o[1] = 127
    \/ o[1] = 10
    \/ o[1] = 172 /\ o[2] \in 16..31
    \/ o[1] = 192 /\ o[2] = 168
    \/ o = <<0, 0, 0, 0>>

IsBlockedQuad(quad) == quad.ok /\ InBlockedRange(quad.octets)

\* h is localhost or the dotted-decimal form of a blocked address
BlockedHostname(h) == h = LocalhostName \/ IsBlockedQuad(DottedQuad(h))

\* C3: a request whose hostname is localhost or a dotted-decimal address in
\* 127.*, 10.*, 172.16-31.*, 192.168.* or 0.0.0.0 is answered 403 with the
\* private-address reason and nothing is dialled, under every whitelist,
\* also one that lists that very hostname.
PrivateHostsRefused ==
    \A r \in Reqs :
        UrlChecked(r) /\ BlockedHostname(Hostname(r)) =>
            RefusedWith(r, PrivateReason(Hostname(r)))

\* https://10.0.0.5 under a whitelist that lists 10.0.0.5: refused, and the
\* private-address reason is the only one
WhitelistedPrivateHostRefused ==
    \E r \in Reqs :
        /\ UrlChecked(r)
        /\ Hostname(r) = TenFive
        /\ TenFive \in Whitelist
        /\ Statuses(r) = {403}
        /\ Reasons(r) = {PrivateReason(TenFive)}

\* hostname matches the entry label-wise: an exact entry equals it, a
\* wildcard entry *.suffix is followed by ".suffix" at the end of it
LabelMatch(hostname, entry) ==
    IF IsWildcard(entry) THEN endsWith(hostname, Tail(entry)) ELSE hostname = entry

\* the hostname is the bare suffix of a wildcard entry *.suffix
IsBareSuffix(hostname) == \E entry \in Whitelist : IsWildcard(entry) /\ hostname = substringFrom(entry, 2)

\* C4: the whitelist check accepts a hostname exactly when an exact entry
\* equals it or it ends with ".suffix" for a wildcard entry *.suffix, the
\* dot included: with *.misa.local, store.misa.local is accepted and
\* evilmisa.local is not.  (The bare suffix itself is the case of C5.)
WildcardNeedsDotBoundary ==
    \A r \in Reqs :
        UrlChecked(r) /\ ~IsBareSuffix(Hostname(r)) =>
            (WhitelistAccepted(r) <=> \E entry \in Whitelist : LabelMatch(Hostname(r), entry))

\* C5: a hostname that is the bare suffix of a wildcard entry *.suffix, and
\* no exact entry of the whitelist, is refused with the whitelist reason and
\* nothing is dialled.
BareSuffixRefused ==
    \A r \in Reqs :
        /\ UrlChecked(r)
        /\ IsBareSuffix(Hostname(r))
        /\ Hostname(r) \notin Whitelist
        => RefusedWith(r, WhitelistReason(Hostname(r)))

\* the IPv4 address an IPv4-mapped IPv6 address (::ffff:a.b.c.d) embeds
MappedQuad(v6) ==
    IF v6.ok /\ SubSeq(v6.pieces, 1, 6) = <<0, 0, 0, 0, 0, 65535>>
    THEN [ok |-> TRUE,
          octets |-> <<v6.pieces[7] \div 256, v6.pieces[7] % 256, v6.pieces[8] \div 256, v6.pieces[8] % 256>>]
    ELSE [ok |-> FALSE, octets |-> <<>>]

\* the IPv4 address the hostname denotes, directly or as an IPv4-mapped IPv6
\* literal
DenotedQuad(h) ==
    IF h # <<>> /\ h[1] = "[" THEN MappedQuad(ParseIPv6(SubSeq(h, 2, Len(h) - 1))) ELSE DottedQuad(h)

\* C6: a request whose hostname denotes an address of the blocked ranges, in
\* whatever representation the originApi wrote it (short form, hex or octal
\* octets, IPv4-mapped IPv6), is answered 403 with the private-address reason
\* and nothing is dialled.
BlockedByRangeContainment ==
    \A r \in Reqs :
        UrlChecked(r) /\ IsBlockedQuad(DenotedQuad(Hostname(r))) =>
            RefusedWith(r, PrivateReason(Hostname(r)))

Https == <<"h", "t", "t", "p", "s", ":">>

MatchesExactEntryIgnoringCase(h) ==
    \E entry \in Whitelist : ~IsWildcard(entry) /\ toLowerCase(entry) = toLowerCase(h)

\* C8 as stated: a hostname that equals an exact whitelist entry
\* case-insensitively passes the whitelist check.
ExactEntryMatchesIgnoringCase ==
    \A r \in Reqs :
        UrlChecked(r) /\ MatchesExactEntryIgnoringCase(Hostname(r)) => WhitelistAccepted(r)

\* no wildcard entry covers the hostname
NoWildcardCovers(h) == \A entry \in Whitelist : IsWildcard(entry) => ~endsWith(h, substringFrom(entry, 2))

\* C8 amended: the hostname reaches the whitelist check lower-cased by the
\* URL parser and an exact entry admits it only when the entry equals it
\* character for character: apart from the wildcard entries, the whitelist
\* check accepts exactly the hostnames that are entries as configured, so an
\* entry with an upper-case letter admits nothing.
ExactEntryIsCaseSensitive ==
    \A r \in Reqs :
        /\ UrlChecked(r) => Hostname(r) = toLowerCase(Hostname(r))
        /\ UrlChecked(r) /\ NoWildcardCovers(Hostname(r)) =>
              (WhitelistAccepted(r) <=> Hostname(r) \in Whitelist)

\* https://api.partner.com under a whitelist whose entry is API.Partner.com:
\* refused with the whitelist reason
UpperCaseEntryAdmitsNothing ==
    \E r \in Reqs :
        /\ UrlChecked(r)
        /\ Hostname(r) = ApiPartnerCom
        /\ ApiPartnerComUpper \in Whitelist
        /\ RefusedWith(r, WhitelistReason(ApiPartnerCom))

\* the x-api-key header of r holds a string, the empty one included
PresentedKey(r) == req[r].apiKey.t = "string"

\* r went no further than apiKeyAuth, answered 401 with that code
RejectedAs(r, code) ==
    /\ stages[r] = <<"apiKeyAuth">>
    /\ pc[r] = "sent"
    /\ Len(res[r]) = 1
    /\ res[r][1].status = 401
    /\ res[r][1].body.code = code

\* r got past apiKeyAuth without an answer from it
Admitted(r) == 401 \notin Statuses(r) /\ (pc[r] = "validateRequest" \/ Ran(r, "validateRequest"))

\* C9 as stated: every presented key string outside validKeys is answered
\* 401 INVALID_API_KEY, every key of validKeys is admitted.
PresentedKeyAdmittedIffValid ==
    \A r \in Reqs :
        Ran(r, "apiKeyAuth") /\ PresentedKey(r) =>
            IF req[r].apiKey.v \in Range(config.security.validApiKeys)
            THEN Admitted(r)
            ELSE RejectedAs(r, "INVALID_API_KEY")

\* C9 amended: every non-empty presented key outside validKeys is answered
\* 401 INVALID_API_KEY and stops at apiKeyAuth, every key of validKeys goes on
\* to validateRequest, by exact string membership; an empty header value is
\* answered 401 MISSING_API_KEY like an absent one.
NonEmptyKeyAdmittedIffValid ==
    \A r \in Reqs :
        Ran(r, "apiKeyAuth") =>
            IF Falsy(req[r].apiKey) THEN RejectedAs(r, "MISSING_API_KEY")
            ELSE IF req[r].apiKey.v \in Range(config.security.validApiKeys) THEN Admitted(r)
            ELSE RejectedAs(r, "INVALID_API_KEY")

\* KEY1 presented where key1 is valid: answered INVALID_API_KEY
KeyInOtherCaseRejected ==
    \E r \in Reqs :
        /\ req[r].apiKey = Str(Key1Upper)
        /\ Key1 \in Range(config.security.validApiKeys)
        /\ RejectedAs(r, "INVALID_API_KEY")

\* text holds sub as a substring
includesStr(s, sub) == \E i \in 0..(Len(s) - Len(sub)) : SubSeq(s, i + 1, i + Len(sub)) = sub

\* the strings a log record prints beyond its message
Printed(record) ==
    (IF "apiKey" \in DOMAIN record.data THEN {record.data.apiKey} ELSE {})
    \cup (IF "keys" \in DOMAIN record.data THEN Range(record.data.keys) ELSE {})

\* the secrets at stake when r fails authentication: the key it presented
\* and the configured valid keys
Credentials(r) ==
    (IF Falsy(req[r].apiKey) THEN {} ELSE {req[r].apiKey.v}) \cup Range(config.security.validApiKeys)

\* C10: no record logged for a request that failed authentication prints the
\* whole presented key, whatever its length, or a configured valid key.
AuthFailureLogsHideCredentials ==
    \A r \in Reqs :
        401 \in Statuses(r) =>
            \A i \in DOMAIN logs[r] :
                \A text \in Printed(logs[r][i]) :
                    \A secret \in Credentials(r) : ~includesStr(text, secret)

\* ---- the rate limiter ----
\* the rate limiter let request r through: it counted r and did not answer 429
Passed(r) == (\E n \in DOMAIN calls : calls[n].r = r) /\ 429 \notin Statuses(r)

\* the admit procedure of the specification, for a store of windows
\* key -> [start, count]: "if no window exists for key, or
\* now - window.start >= windowDuration, reset {start: now, count: 0}"
windowAt(store, key, at) ==
    IF key \notin DOMAIN store \/ at - store[key].start >= config.rateLimiting.windowMs
    THEN [start |-> at, count |-> 0]
    ELSE store[key]

\* "Increment count"
counted(window) == [window EXCEPT !.count = @ + 1]

admit(store, key, at) == (key :> counted(windowAt(store, key, at))) @@ store

\* the store of the specification after the first n calls of the limiter,
\* each made under the key keys[n]
RECURSIVE storeAfter(_, _)
storeAfter(keys, n) ==
    IF n = 0 THEN <<>> ELSE admit(storeAfter(keys, n - 1), keys[n], calls[n].at)

\* the outcome of the n-th admit call: true while count <= max
outcome(keys, n) == storeAfter(keys, n)[keys[n]].count <= config.rateLimiting.maxRequests

\* the keys the code's keyGenerator gave the calls
CodeKeys == [n \in DOMAIN calls |-> calls[n].key]

\* C11: the rate limiter answers the calls made for one key as the admit
\* procedure does: the first max requests of a window are let through, every
\* later one in that window is answered 429, and a request made once the
\* window has elapsed starts a new window and is let through.
LimiterAdmitsFirstMaxOfWindow ==
    \A n \in DOMAIN calls : Passed(calls[n].r) <=> outcome(CodeKeys, n)

\* three requests for one key: let through, answered 429 inside the window,
\* let through after the window has elapsed
AdmittedRejectedAdmittedAgain ==
    \E i, j, k \in DOMAIN calls :
        /\ i < j /\ j < k
        /\ calls[i].key = calls[j].key /\ calls[j].key = calls[k].key
        /\ Passed(calls[i].r)
        /\ ~Passed(calls[j].r) /\ calls[j].at - calls[i].at < config.rateLimiting.windowMs
        /\ Passed(calls[k].r) /\ calls[k].at - calls[i].at >= config.rateLimiting.windowMs

\* the calls counted for key in the window its client record holds
CallsInWindow(key) ==
    {n \in DOMAIN calls :
        /\ calls[n].key = key
        /\ calls[n].at >= hits[key].resetTime - config.rateLimiting.windowMs}

\* C12: however the concurrent requests interleave, every request that ran
\* the rate limiter was counted exactly once, the count of a key is the
\* number of requests counted in its window, none lost, and the requests let
\* through in that window are at most maxRequests.
EachRequestCountedOnce ==
    /\ \A r \in Reqs :
          Cardinality({n \in DOMAIN calls : calls[n].r = r}) = (IF Ran(r, "rateLimiter") THEN 1 ELSE 0)
    /\ \A key \in DOMAIN hits :
          /\ hits[key].totalHits = Cardinality(CallsInWindow(key))
          /\ Cardinality({n \in CallsInWindow(key) : Passed(calls[n].r)}) <= config.rateLimiting.maxRequests

\* two requests in flight together share a key: the later arrival was
\* counted first and let through, the earlier one counted second and
\* answered 429
ConcurrentRequestsShareCount ==
    \E i, j \in DOMAIN calls :
        /\ i < j /\ calls[i].r > calls[j].r
        /\ calls[i].key = calls[j].key /\ calls[i].at = calls[j].at
        /\ hits[calls[i].key].totalHits = 2
        /\ Passed(calls[i].r) /\ 429 \in Statuses(calls[j].r)

\* the destination hostname of the rate-limit key: the hostname parsed from
\* originApi, or the sentinel when originApi does not parse
DestinationHostname(r) ==
    IF OriginOf(r).ok THEN Hostname(r) ELSE <<"u", "n", "k", "n", "o", "w", "n">>

\* callerIdentity (+) destinationHostname
RateLimitKey(r) == [caller |-> req[r].apiKey.v, host |-> DestinationHostname(r)]

\* the keys of the calls as the specification derives them
SpecKeys == [n \in DOMAIN calls |-> RateLimitKey(calls[n].r)]

\* C13: requests are counted per presented API key and destination
\* hostname: a request whose originApi parses is let through exactly when the
\* admit procedure lets it through under the key (API key, hostname), so
\* callers presenting different API keys do not use up each other's window.
CountedPerApiKeyAndHostname ==
    \A n \in DOMAIN calls :
        OriginOf(calls[n].r).ok => (Passed(calls[n].r) <=> outcome(SpecKeys, n))

\* C14: the requests of one caller whose originApi does not parse are
\* counted together in one window, under the sentinel hostname, apart from
\* the windows of the caller's well-formed destinations: such a request is
\* let through exactly when the admit procedure lets it through under the
\* key (API key, "unknown").
MalformedOriginsShareWindow ==
    \A n \in DOMAIN calls :
        ~OriginOf(calls[n].r).ok => (Passed(calls[n].r) <=> outcome(SpecKeys, n))

\* the time left, at the n-th call, in the window that call was counted in
TimeRemaining(n) ==
    config.rateLimiting.windowMs - (calls[n].at - storeAfter(CodeKeys, n)[calls[n].key].start)

\* C15: the retryAfter of a 429 answer is the time remaining in the key's
\* window when the request was rejected, windowDuration - (now - windowStart),
\* in seconds.
RetryAfterIsTimeRemaining ==
    \A n \in DOMAIN calls :
        \A i \in DOMAIN res[calls[n].r] :
            res[calls[n].r][i].status = 429 =>
                res[calls[n].r][i].body.retryAfter = CeilSeconds(TimeRemaining(n))

\* the start of the window the n-th call was counted in
WindowStart(n) == storeAfter(CodeKeys, n)[calls[n].key].start

\* the requests let through for the key of the n-th call, in its window
AdmittedInWindowOf(n) ==
    {m \in DOMAIN calls :
        calls[m].key = calls[n].key /\ WindowStart(m) = WindowStart(n) /\ Passed(calls[m].r)}

\* the requests let through for the key of the n-th call in the interval of
\* length windowMs that begins at that call
AdmittedInIntervalFrom(n) ==
    {m \in DOMAIN calls :
        /\ calls[m].key = calls[n].key /\ Passed(calls[m].r)
        /\ calls[n].at <= calls[m].at /\ calls[m].at <= calls[n].at + config.rateLimiting.windowMs}

\* C16: for every key, the requests let through inside one window are at
\* most maxRequests, and those let through inside any interval of length
\* windowMs, which may straddle the boundary of two windows, are at most
\* twice maxRequests.
BurstAtMostTwiceMax ==
    \A n \in DOMAIN calls :
        /\ Cardinality(AdmittedInWindowOf(n)) <= config.rateLimiting.maxRequests
        /\ Cardinality(AdmittedInIntervalFrom(n)) <= 2 * config.rateLimiting.maxRequests

\* an interval of length windowMs straddles two windows of one key and holds
\* more requests let through than maxRequests
BurstAcrossWindowBoundary ==
    \E n, m \in DOMAIN calls :
        /\ m \in AdmittedInIntervalFrom(n) /\ WindowStart(m) # WindowStart(n)
        /\ Cardinality(AdmittedInIntervalFrom(n)) > config.rateLimiting.maxRequests

\* ---- forwarding ----
\* the gateway answered r with the origin's answer: same status, carried in
\* meta.status, success exactly for a 2xx status
Mirrors(r, answer) ==
    /\ Len(res[r]) = 1
    /\ res[r][1].status = answer.status
    /\ "meta" \in DOMAIN res[r][1].body
    /\ res[r][1].body.meta.status = answer.status
    /\ res[r][1].body.success = (answer.status >= 200 /\ answer.status < 300)

\* C17: whatever status the origin answers the call with, 2xx, 3xx, 4xx or
\* 5xx, the forward call returns normally and the gateway answers with that
\* status, carries it in meta.status, and sets success exactly when the
\* status is in [200,300).
OriginStatusMirrored ==
    \A r \in Reqs :
        pc[r] = "sent" => \A i \in DOMAIN answers[r] : Mirrors(r, answers[r][i])

\* what the gateway reports for a transport failure: the network error code,
\* or REQUEST_FAILED for an error without one
ErrorKind(error) == IF error.code # "" THEN error.code ELSE "REQUEST_FAILED"

\* the transport failures logged for r: forwardRequest's catch logs
\* error.message with "Request failed"
FailuresOf(r) ==
    {error \in TransportErrors :
        \E i \in DOMAIN logs[r] :
            logs[r][i].message = "Request failed" /\ logs[r][i].data.error = error.message}

AdmittedRequestEventuallyAnswered ==
    \A r \in Reqs : (pc[r] = "awaitAxios") ~> (pc[r] = "sent")

\* the answers the pipeline gives of itself, by status
ErrorAnswers ==
    [s \in {401, 400, 429, 403, 502} |->
        CASE s = 401 -> "Unauthorized" [] s = 400 -> "Bad Request" [] s = 429 -> "Too Many Requests"
          [] s = 403 -> "Forbidden" [] s = 502 -> "Bad Gateway"]

\* a structured response: one of the pipeline's error answers, or the
\* envelope {success, data, meta} under the status of the answer axios
\* resolved with
Structured(r, response) ==
    IF "error" \in DOMAIN response.body
    THEN response.status \in DOMAIN ErrorAnswers /\ response.body.error = ErrorAnswers[response.status]
    ELSE /\ answers[r] # <<>> /\ response.status = Last(answers[r]).status
         /\ {"success", "data", "meta"} \subseteq DOMAIN response.body

\* C20: whatever the envelope (fields missing, null or array payload and
\* headers, an originApi that does not parse) and however the outbound call
\* ends, a request that has left the pipeline was answered exactly once,
\* with 401, 400, 429, 403, 502 or the mirrored status of the origin; no
\* failure leaves it without an answer.
EveryRequestEndsInStructuredResponse ==
    \A r \in Reqs :
        /\ Len(res[r]) <= 1
        /\ \A i \in DOMAIN res[r] : Structured(r, res[r][i])
        /\ pc[r] = "sent" => Len(res[r]) = 1

\* an envelope whose payload and headers are arrays passes validateRequest,
\* its outbound call fails, and it is answered 502
ArrayHeadersAnswered502 ==
    \E r \in Reqs :
        /\ pc[r] = "sent"
        /\ req[r].body.headers.t = "array" /\ req[r].body.payload.t = "array"
        /\ Len(outbound[r]) = 1 /\ "0" \in DOMAIN outbound[r][1].headers
        /\ Statuses(r) = {502}

\* ---- the shape validator ----
Fields == {"originApi", "path", "method", "payload", "headers", "cookies"}

\* the field each reason of the 400 answer is about
FieldOfReason ==
    [e \in {"originApi is required and must be a string", "path is required and must be a string",
            "path must start with \"/\"", "method is required and must be a string",
            "method must be one of: GET, POST, PUT, DELETE, PATCH", "payload must be an object",
            "headers must be an object", "cookies must be a string"} |->
        CASE e = "originApi is required and must be a string" -> "originApi"
          [] e \in {"path is required and must be a string", "path must start with \"/\""} -> "path"
          [] e \in {"method is required and must be a string",
                    "method must be one of: GET, POST, PUT, DELETE, PATCH"} -> "method"
          [] e = "payload must be an object" -> "payload"
          [] e = "headers must be an object" -> "headers"
          [] e = "cookies must be a string" -> "cookies"]

IsScalar(x) == x.t \in {"string", "number", "boolean"}
NonEmptyString(x) == x.t = "string" /\ x.v # <<>>

\* the rules of the shape validator an envelope violates.  For payload and
\* headers the rule taken here is "not a scalar"; whether null and arrays
\* are objects is the matter of C22.
ViolatedRules(body) ==
    {f \in Fields :
        CASE f = "originApi" -> ~NonEmptyString(body.originApi)
          [] f = "path" -> ~(NonEmptyString(body.path) /\ body.path.v[1] = "/")
          [] f = "method" -> ~(NonEmptyString(body.method) /\
                               \E i \in DOMAIN validMethods : toLowerCase(body.method.v) = toLowerCase(validMethods[i]))
          [] f = "payload" -> IsScalar(body.payload)
          [] f = "headers" -> IsScalar(body.headers)
          [] f = "cookies" -> body.cookies.t \notin {"undefined", "string"}}

\* the errors lists of the 400 answers to r
ShapeErrors(r) == {res[r][i].body.errors : i \in {j \in DOMAIN res[r] : res[r][j].status = 400}}

\* C21: the shape validator runs every check: the errors of the 400 answer
\* hold exactly one reason for each rule the envelope violates, whichever
\* comes first, an envelope that violates none is passed on, and the
\* validator writes no log record, counts nothing and dials nothing.
ShapeFailuresAggregated ==
    \A r \in Reqs :
        Ran(r, "validateRequest") =>
            /\ ViolatedRules(req[r].body) = {} => ShapeErrors(r) = {}
            /\ ViolatedRules(req[r].body) # {} =>
                  /\ Cardinality(ShapeErrors(r)) = 1
                  /\ \A errors \in ShapeErrors(r) :
                        /\ Len(errors) = Cardinality(ViolatedRules(req[r].body))
                        /\ {FieldOfReason[errors[i]] : i \in DOMAIN errors} = ViolatedRules(req[r].body)
                  /\ logs[r] = <<>> /\ outbound[r] = <<>> /\ hits = <<>> /\ calls = <<>>

\* an envelope that violates all six rules is answered with six reasons
SixReasonsReported ==
    \E r \in Reqs :
        /\ Ran(r, "validateRequest")
        /\ ViolatedRules(req[r].body) = Fields
        /\ \E errors \in ShapeErrors(r) : Len(errors) = 6

\* C22: a payload that is present and is not a structured object (a scalar,
\* an array, null) is answered 400 by the shape validator and no outbound
\* call is made for it.
OnlyObjectPayloadAccepted ==
    \A r \in Reqs :
        (Ran(r, "validateRequest") /\ req[r].body.payload.t \notin {"undefined", "object"}) =>
            400 \in Statuses(r) /\ ~Ran(r, "forwardRequest") /\ outbound[r] = <<>>

\* ---- the forwarder ----
\* C23: whenever forwardRequest runs for a request, its path is a non-empty
\* string that begins with "/", and the URL of the one outbound call is
\* originApi followed by path, character for character.
DialledUrlIsOriginApiThenPath ==
    \A r \in Reqs :
        Ran(r, "forwardRequest") =>
            /\ NonEmptyString(req[r].body.path) /\ req[r].body.path.v[1] = "/"
            /\ Len(outbound[r]) = 1
            /\ outbound[r][1].url = req[r].body.originApi.v \o req[r].body.path.v

\* https://store.misa.local/ with //home is dialled with its three slashes
SlashesKept ==
    \E r \in Reqs :
        /\ Ran(r, "forwardRequest")
        /\ req[r].body.originApi.v = HttpsStoreSlash /\ req[r].body.path.v = PathDoubleSlash
        /\ outbound[r][1].url = HttpsStore \o <<"/", "/", "/", "h", "o", "m", "e">>

\* the methods that carry a body, compared without regard to case
CarriesBody(method) ==
    toLowerCase(method) \in {<<"p", "o", "s", "t">>, <<"p", "u", "t">>, <<"p", "a", "t", "c", "h">>}

\* a payload that is present and not empty
NonEmptyPayload(payload) ==
    \/ payload.t \in {"object", "array"} /\ DOMAIN payload.v # {}
    \/ payload.t \in {"string", "number"} /\ ~Falsy(payload)

\* the content types a set of headers names, header names being
\* case-insensitive
ContentTypeNames == {"Content-Type", "content-type"}
ContentTypes(h) == {h[k] : k \in DOMAIN h \cap ContentTypeNames}

CallerHeaders(r) == IF req[r].body.headers.t = "undefined" THEN <<>> ELSE Spread(req[r].body.headers)

\* C24: the outbound call carries a body exactly when the method is POST,
\* PUT or PATCH in any case and the payload is non-empty; the body is then
\* the payload, with Content-Type application/json unless the caller
\* supplied a content type, which is then the only one sent.
BodyExactlyForNonEmptyPayload ==
    \A r \in Reqs :
        \A i \in DOMAIN outbound[r] :
            IF CarriesBody(req[r].body.method.v) /\ NonEmptyPayload(req[r].body.payload)
            THEN /\ outbound[r][i].data = req[r].body.payload
                 /\ ContentTypes(outbound[r][i].headers) =
                       (IF ContentTypes(CallerHeaders(r)) # {} THEN ContentTypes(CallerHeaders(r))
                        ELSE {"application/json"})
            ELSE outbound[r][i].data = Undefined

\* the header names the gateway sets of itself, in both spellings
GatewayHeaderNames == {"User-Agent", "user-agent", "Cookie", "cookie"} \cup ContentTypeNames

CallerSupplied(r, name, lower) ==
    (IF name \in DOMAIN CallerHeaders(r) THEN {CallerHeaders(r)[name]} ELSE {})
    \cup (IF lower \in DOMAIN CallerHeaders(r) THEN {CallerHeaders(r)[lower]} ELSE {})

CookiesGiven(r) == req[r].body.cookies.t = "string" /\ req[r].body.cookies.v # <<>>

ReasonList(r) == IF res[r] # <<>> /\ res[r][1].status = 403 THEN res[r][1].body.reasons ELSE <<>>

\* one reason per rule the parsed originApi of r violates, in the order
\* scheme, private address, whitelist
ViolatedUrlRules(r) ==
    (IF OriginOf(r).protocol # Https THEN <<OnlyHttpsReason>> ELSE <<>>)
    \o (IF matchesPrivateIpPattern(Hostname(r)) THEN <<PrivateReason(Hostname(r))>> ELSE <<>>)
    \o (IF ~isWhitelisted(Hostname(r)) THEN <<WhitelistReason(Hostname(r))>> ELSE <<>>)

\* C26: for a request that reached validateUrl with an originApi that
\* parses, the reasons answered are one per violated rule in the order
\* scheme, private address, whitelist, and the URL is valid (the request is
\* forwarded instead of answered 403) exactly when no rule is violated.
UrlReasonsAccumulatedInOrder ==
    \A r \in Reqs :
        UrlChecked(r) =>
            /\ ReasonList(r) = ViolatedUrlRules(r)
            /\ (Statuses(r) = {403}) <=> (ViolatedUrlRules(r) # <<>>)
            /\ Ran(r, "forwardRequest") <=> (ViolatedUrlRules(r) = <<>>)

\* an originApi that violates all three rules was answered 403 with the
\* three reasons, scheme first and whitelist last
ThreeReasonsInOrder ==
    \E r \in Reqs :
        /\ UrlChecked(r)
        /\ Len(ReasonList(r)) = 3
        /\ ReasonList(r)[1] = OnlyHttpsReason
        /\ ReasonList(r)[3] = WhitelistReason(Hostname(r))

\* C27: a request that reached validateUrl with an originApi that does not
\* parse as an absolute URL is answered 403 once, with the invalid-format
\* reason as its only reason, and no outbound call is made.
UnparsableOriginOneReason ==
    \A r \in Reqs :
        Ran(r, "handler") /\ ~OriginOf(r).ok =>
            /\ Len(res[r]) = 1 /\ res[r][1].status = 403
            /\ Len(ReasonList(r)) = 1
            /\ ReasonList(r)[1].text = "Invalid URL format: "
            /\ ~Ran(r, "forwardRequest") /\ outbound[r] = <<>>

\* "not a url" reached validateUrl and was answered 403 with one reason
NotAUrlRefused ==
    \E r \in Reqs :
        /\ Ran(r, "handler")
        /\ req[r].body.originApi.v = NotAUrl
        /\ Statuses(r) = {403} /\ Len(ReasonList(r)) = 1

\* the codes of the 401 answers of r
AuthCodes(r) == {res[r][i].body.code : i \in {j \in DOMAIN res[r] : res[r][j].status = 401}}

\* C28: a request without an X-API-Key header is answered once, 401 with
\* the code MISSING_API_KEY, by apiKeyAuth and goes no further; the code
\* INVALID_API_KEY is given only to a request that did present a key.
MissingKeyHasItsOwnCode ==
    \A r \in Reqs :
        Ran(r, "apiKeyAuth") =>
            /\ req[r].apiKey = Undefined =>
                  /\ Len(res[r]) = 1 /\ Statuses(r) = {401}
                  /\ AuthCodes(r) = {"MISSING_API_KEY"}
                  /\ stages[r] = <<"apiKeyAuth">>
            /\ "INVALID_API_KEY" \in AuthCodes(r) => req[r].apiKey # Undefined
            /\ "INVALID_API_KEY" \in AuthCodes(r) => "MISSING_API_KEY" \notin AuthCodes(r)

\* a request came without a key and was answered 401 MISSING_API_KEY
KeylessRequestRefused ==
    \E r \in Reqs :
        /\ Ran(r, "apiKeyAuth")
        /\ req[r].apiKey = Undefined
        /\ AuthCodes(r) = {"MISSING_API_KEY"}

\* the events r handed to log(), the bare console.log of the valid keys left
\* out
Events(r) == SelectSeq(logs[r], LAMBDA e : e.level # "log")

\* r was turned away by authentication, shape validation, the rate limiter
\* or the URL policy
Rejected(r) == pc[r] = "sent" /\ Statuses(r) \cap {401, 400, 429, 403} # {}

\* C29: every request that a stage turned away left exactly one event with
\* the logging collaborator, and every request that was forwarded and
\* answered left at least one.
EveryOutcomeLeavesALogRecord ==
    \A r \in Reqs :
        /\ Rejected(r) => Len(Events(r)) = 1
        /\ pc[r] = "sent" /\ Ran(r, "forwardRequest") => Len(Events(r)) >= 1

\* the records forwardRequest wrote for r
ForwardRecords(r) ==
    SelectSeq(logs[r], LAMBDA e : e.message \in {"Forwarding request", "Request completed", "Request failed"})

\* the elapsed time the answer to r carries
OutcomeDuration(response) ==
    IF "details" \in DOMAIN response.body THEN response.body.details.duration ELSE response.body.meta.duration

\* the step in which the attempt for r ends: one terminal record comes
\* after the start record, and it and the answer carry the time since the
\* attempt began
AttemptEnds(r) ==
    /\ Len(outbound'[r]) = 1
    /\ Len(ForwardRecords(r)') = 2
    /\ ForwardRecords(r)'[1].message = "Forwarding request"
    /\ ForwardRecords(r)'[2].message \in {"Request completed", "Request failed"}
    /\ ForwardRecords(r)'[2].data.duration = now - outbound[r][1].startTime
    /\ Len(res'[r]) = 1
    /\ OutcomeDuration(res'[r][1]) = now - outbound[r][1].startTime

\* C30: an attempt writes its start record when the call is issued and
\* nothing more while it waits; the step that ends it, by an answer or a
\* failure, adds exactly one terminal record, and that record and the
\* outcome returned carry the time elapsed since the attempt began; no
\* record of the attempt is written after that.
OneStartOneTerminalRecord ==
    [][\A r \in Reqs :
          /\ pc'[r] = "awaitAxios" =>
                /\ Len(ForwardRecords(r)') = 1
                /\ ForwardRecords(r)'[1].message = "Forwarding request"
          /\ pc[r] = "awaitAxios" /\ pc'[r] = "sent" => AttemptEnds(r)
          /\ pc[r] = "sent" => ForwardRecords(r)' = ForwardRecords(r)
          /\ ~Ran(r, "forwardRequest")' => ForwardRecords(r)' = <<>>]_vars

\* an attempt that took a second ended, and its terminal record carries
\* that second
AttemptOfOneSecondRecorded ==
    \E r \in Reqs :
        /\ pc[r] = "sent" /\ Ran(r, "forwardRequest")
        /\ Len(ForwardRecords(r)) = 2
        /\ ForwardRecords(r)[2].data.duration = 1000

\* what belongs to request q alone
Own(q) == <<req[q], pc[q], stages[q], res[q], logs[q], outbound[q], answers[q]>>

\* the outcome of the validator that answers with status: the answer it
\* gave r, or none when it let r through
OutcomeOf(r, status) ==
    IF res[r] # <<>> /\ res[r][1].status = status THEN <<res[r][1]>> ELSE <<>>

\* r has left the validator that answers with status
Validated(r, stage) == Ran(r, stage) /\ pc[r] # stage

\* C31: no step changes the configuration; a step of apiKeyAuth,
\* validateRequest or of the handler's validateUrl leaves the limiter's
\* store and every other request as they were; and two requests with the
\* same key, the same body or the same originApi have the same outcome of
\* apiKeyAuth, validateRequest and validateUrl, whatever was handled between
\* them.
ValidatorsArePure ==
    [][/\ config' = config
       /\ \A r \in Reqs :
             pc[r] \in {"apiKeyAuth", "validateRequest", "handler"} /\ pc'[r] # pc[r] =>
                 /\ hits' = hits /\ calls' = calls /\ now' = now
                 /\ \A q \in Reqs \ {r} : Own(q)' = Own(q)
       /\ \A q, r \in Reqs :
             /\ Ran(q, "apiKeyAuth")' /\ Ran(r, "apiKeyAuth")' /\ req'[q].apiKey = req'[r].apiKey =>
                   OutcomeOf(q, 401)' = OutcomeOf(r, 401)'
             /\ Ran(q, "validateRequest")' /\ Ran(r, "validateRequest")' /\ req'[q].body = req'[r].body =>
                   OutcomeOf(q, 400)' = OutcomeOf(r, 400)'
             /\ Ran(q, "handler")' /\ Ran(r, "handler")' /\ req'[q].body.originApi = req'[r].body.originApi =>
                   /\ OutcomeOf(q, 403)' = OutcomeOf(r, 403)'
                   /\ Ran(q, "forwardRequest")' <=> Ran(r, "forwardRequest")']_vars

\* validateUrl ran twice on the same originApi, for two requests of one
\* caller, and refused it twice with the same answer
SameOriginRefusedTwice ==
    \E q, r \in Reqs :
        /\ q < r
        /\ Ran(q, "handler") /\ Ran(r, "handler")
        /\ req[q] = req[r]
        /\ OutcomeOf(q, 403) # <<>>
        /\ OutcomeOf(q, 403) = OutcomeOf(r, 403)

\* the count the store holds for key while its window is open
LiveCount(key) == IF key \in DOMAIN hits /\ hits[key].resetTime > now THEN hits[key].totalHits ELSE 0

\* C36: the limiter's store changes in the rate-limiter step of a request
\* and in no other: that step adds one to the count of one key and leaves
\* the other keys alone, and no step of authentication, shape validation,
\* the handler or the outbound call touches any count.  So a request
\* answered 401 or 400 was never counted, and a request answered 403 or 502
\* was counted once and stays counted.
QuotaConsumedAtLimiterOnly ==
    [][\A r \in Reqs :
          /\ pc[r] # "rateLimiter" /\ pc'[r] # pc[r] => hits' = hits /\ calls' = calls
          /\ pc[r] = "rateLimiter" /\ pc'[r] # pc[r] =>
                /\ Len(calls') = Len(calls) + 1
                /\ Last(calls').r = r
                /\ hits'[Last(calls').key].totalHits = LiveCount(Last(calls').key) + 1
                /\ \A key \in DOMAIN hits \ {Last(calls').key} : hits'[key] = hits[key]
          /\ pc'[r] = "sent" =>
                Cardinality({n \in DOMAIN calls' : calls'[n].r = r}) =
                    (IF Statuses(r)' \cap {401, 400} # {} THEN 0 ELSE 1)]_vars

\* a request whose call failed in transport was answered 502, and the next
\* request on its key in the same window was answered 429: the failed one
\* had used the quota
FailedRequestUsedQuota ==
    \E i, j \in DOMAIN calls :
        /\ i < j
        /\ calls[i].key = calls[j].key
        /\ calls[j].at - calls[i].at < config.rateLimiting.windowMs
        /\ Statuses(calls[i].r) = {502}
        /\ 429 \in Statuses(calls[j].r)

\* the call i of r goes to the scheme and hostname validateUrl checked
SameDestination(r, i) ==
    /\ URL(outbound[r][i].url).ok
    /\ URL(outbound[r][i].url).hostname = Hostname(r)
    /\ URL(outbound[r][i].url).protocol = OriginOf(r).protocol

\* C37 as stated: the url of every outbound call, originApi followed by
\* path, has the hostname and the scheme that validateUrl checked.
DialledHostIsValidatedHost ==
    \A r \in Reqs : \A i \in DOMAIN outbound[r] : SameDestination(r, i)

\* C37, amended: the url of every outbound call either does not parse, and
\* then axios gets no answer from any host for it, or has the hostname and
\* the scheme that validateUrl checked.
DialledHostIsValidatedHostOrNone ==
    \A r \in Reqs :
        \A i \in DOMAIN outbound[r] :
            IF URL(outbound[r][i].url).ok THEN SameDestination(r, i) ELSE answers[r] = <<>>

\* a path that names a private address after an "@" was forwarded and
\* answered: the call went to the whitelisted host
HostilePathStaysPath ==
    \E r \in Reqs :
        /\ Ran(r, "forwardRequest")
        /\ req[r].body.path.v = PathAtPrivate
        /\ Len(outbound[r]) = 1 /\ SameDestination(r, 1)
        /\ Hostname(r) = StoreMisaLocal
        /\ answers[r] # <<>>

\* C38: a response is sent for a request only while none has been sent for
\* it, the step that sends it ends the request, and nothing runs for the
\* request after that: no stage, no log record, no outbound call, no second
\* response.  A request that has ended has exactly one response.
AnsweredExactlyOnce ==
    [][\A r \in Reqs :
          /\ res'[r] # res[r] =>
                /\ res[r] = <<>> /\ Len(res'[r]) = 1
                /\ pc[r] # "sent" /\ pc'[r] = "sent"
          /\ pc[r] = "sent" => Own(r)' = Own(r)
          /\ pc'[r] = "sent" => Len(res'[r]) = 1
          /\ pc'[r] # "sent" => res'[r] = <<>>]_vars

\* two requests were in the pipeline together; one was refused, the call of
\* the other failed, and each has its one response
BothAnsweredOnce ==
    \E q, r \in Reqs :
        /\ pc[q] = "sent" /\ pc[r] = "sent"
        /\ Statuses(q) = {403} /\ Len(res[q]) = 1
        /\ Statuses(r) = {502} /\ Len(res[r]) = 1

\* the call of q as forwardRequest built it, the time it began left out
CallOf(q) == [i \in DOMAIN outbound[q] |-> [outbound[q][i] EXCEPT !.startTime = 0]]

\* C40: a step taken for one request changes nothing that belongs to
\* another request (its response, its outbound call, its stage, its log
\* records); of what the requests share, the configuration never changes
\* and the limiter's store changes in rate-limiter steps only.  Two requests
\* with the same content that the limiter let through and whose origin gave
\* the same answers have the same status and the same outbound call,
\* whatever happened to the requests handled with them.
RequestsAreIsolated ==
    [][/\ \A r \in Reqs :
             Own(r)' # Own(r) =>
                 /\ \A q \in Reqs \ {r} : Own(q)' = Own(q)
                 /\ config' = config
                 /\ pc[r] # "rateLimiter" => hits' = hits
       /\ \A q, r \in Reqs :
             /\ pc'[q] = "sent" /\ pc'[r] = "sent"
             /\ req'[q] = req'[r]
             /\ 429 \notin Statuses(q)' \cup Statuses(r)'
             /\ answers'[q] = answers'[r]
             => Statuses(q)' = Statuses(r)' /\ CallOf(q)' = CallOf(r)']_vars

\* the call of q was under way when the call of r began, failed and was
\* answered 502; q goes on waiting for its origin
FailureBesideCallUnderWay ==
    \E q, r \in Reqs :
        /\ pc[q] = "awaitAxios" /\ outbound[q] # <<>> /\ res[q] = <<>>
        /\ Statuses(r) = {502}
        /\ Last(outbound[q]).startTime <= Last(outbound[r]).startTime

\* the value names no entry: it is unset or holds spaces and commas only
OnlyBlank(value) == Falsy(value) \/ \A i \in DOMAIN value.v : value.v[i] \in {" ", ","}

\* C32: the server listens only with a whitelist and a key list that are
\* non-empty and hold no blank entry; it has exited exactly when
\* ALLOWED_DOMAINS or VALID_API_KEYS names no entry once trimmed; and a
\* request is taken in only while the server listens.
ListensOnlyWithDomainsAndKeys ==
    /\ process.state = "listening" =>
          /\ config.security.allowedDomains # <<>> /\ config.security.validApiKeys # <<>>
          /\ <<>> \notin Range(config.security.allowedDomains) \cup Range(config.security.validApiKeys)
          /\ ~OnlyBlank(process.env.ALLOWED_DOMAINS) /\ ~OnlyBlank(process.env.VALID_API_KEYS)
    /\ process.state = "exited" =>
          OnlyBlank(process.env.ALLOWED_DOMAINS) \/ OnlyBlank(process.env.VALID_API_KEYS)
    /\ \A r \in Reqs : pc[r] # "idle" => process.state = "listening"

\* ALLOWED_DOMAINS is " , ", VALID_API_KEYS names two keys: the process has
\* exited and no request was taken in
BlankWhitelistExits ==
    /\ process.state = "exited"
    /\ process.env.ALLOWED_DOMAINS = Str(BlankList)
    /\ process.env.VALID_API_KEYS = Str(PaddedKeys)
    /\ \A r \in Reqs : pc[r] = "idle"

\* the responses of r, the measured duration left out
AnswerOf(r) ==
    [i \in DOMAIN res[r] |->
        [status |-> res[r][i].status,
         body |-> IF "meta" \in DOMAIN res[r][i].body
                  THEN [res[r][i].body EXCEPT !.meta.duration = 0]
                  ELSE IF "details" \in DOMAIN res[r][i].body /\ res[r][i].status = 502
                  THEN [res[r][i].body EXCEPT !.details.duration = 0]
                  ELSE res[r][i].body]]

\* what r handed to log(), whatever became of the write
Handed(r) == [i \in DOMAIN logs[r] |-> [level |-> logs[r][i].level, message |-> logs[r][i].message]]

\* the writes of r to the log file that failed
FailedWrites(r) == {i \in DOMAIN logs[r] : logs[r][i].file = "failed"}

\* C39: whether the writes to the log file succeed or fail, a request is
\* answered once, and two answered requests with the same content whose
\* origin gave the same answers went through the same stages, made the same
\* outbound call, handed the same events to log() and got the same
\* response.
SinkFailureChangesNothing ==
    /\ \A r \in SinkReqs : pc[r] = "sent" => Len(res[r]) = 1
    /\ \A q, r \in SinkReqs :
          /\ pc[q] = "sent" /\ pc[r] = "sent"
          /\ req[q] = req[r]
          /\ answers[q] = answers[r]
          => /\ stages[q] = stages[r]
             /\ CallOf(q) = CallOf(r)
             /\ Handed(q) = Handed(r)
             /\ AnswerOf(q) = AnswerOf(r)

\* two requests with the same content were forwarded and answered alike;
\* every write of the one reached the log file, every write of the other
\* failed
AnsweredAlikeWithFailedWrites ==
    \E q, r \in SinkReqs :
        /\ pc[q] = "sent" /\ pc[r] = "sent"
        /\ req[q] = req[r]
        /\ Ran(q, "handler") /\ outbound[q] # <<>>
        /\ answers[q] = answers[r]
        /\ FailedWrites(q) = {} /\ logs[q] # <<>>
        /\ FailedWrites(r) = DOMAIN logs[r]
        /\ AnswerOf(q) = AnswerOf(r)

\* every attempt of axiosWithRetry made so far has failed
AllFailed == \A i \in DOMAIN proxy.attempts : ~proxy.attempts[i].outcome.ok

\* C33: axiosWithRetry makes at most maxRetries attempts, numbered from 0;
\* an attempt begins only after every earlier one has ended in failure; and
\* an attempt that succeeds is the last one, its response being what the
\* handler sends.
AttemptsInSequenceUpToFirstSuccess ==
    /\ Len(proxy.attempts) + (IF proxy.pc = "attempt" THEN 1 ELSE 0) <= proxy.maxRetries
    /\ \A i \in DOMAIN proxy.attempts :
          /\ proxy.attempts[i].n = i - 1
          /\ proxy.attempts[i].began <= proxy.attempts[i].ended
          /\ i > 1 => /\ ~proxy.attempts[i - 1].outcome.ok
                      /\ proxy.attempts[i].began >= proxy.attempts[i - 1].ended
          /\ proxy.attempts[i].outcome.ok =>
                /\ i = Len(proxy.attempts)
                /\ proxy.pc = "done"
                /\ proxy.res = <<Response(200, proxy.attempts[i].outcome.response.v.data)>>
    /\ proxy.pc = "attempt" =>
          /\ AllFailed
          /\ \A i \in DOMAIN proxy.attempts : proxy.began >= proxy.attempts[i].ended

\* of three attempts allowed, the first failed and the second succeeded: its
\* response was sent and no third attempt was made
SecondAttemptSucceeded ==
    /\ proxy.pc = "done"
    /\ proxy.maxRetries = 3
    /\ Len(proxy.attempts) = 2
    /\ ~proxy.attempts[1].outcome.ok /\ proxy.attempts[2].outcome.ok
    /\ Len(proxy.res) = 1 /\ proxy.res[1].status = 200

\* C34: when all maxRetries attempts have failed, no delay follows the last
\* failure and the handler answers at once, from the error of the last
\* attempt: with its status and body when the error has a response, with
\* status 500 otherwise.
LastErrorRelayedAtOnce ==
    (proxy.pc = "done" /\ AllFailed /\ Len(proxy.attempts) = proxy.maxRetries) =>
        /\ Len(proxy.delays) = proxy.maxRetries - 1
        /\ proxy.clock = Last(proxy.attempts).ended
        /\ Len(proxy.res) = 1
        /\ IF Last(proxy.attempts).outcome.response = Undefined
           THEN proxy.res[1].status = 500
           ELSE proxy.res[1] = Response(Last(proxy.attempts).outcome.response.v.status,
                                        Last(proxy.attempts).outcome.response.v.data)

\* the delay after failed attempt k - 1 is 2^(k-1) seconds, and the next
\* attempt begins when it has passed
WaitsDouble ==
    \A k \in DOMAIN proxy.delays :
        /\ proxy.delays[k] = 2^(k - 1) * 1000
        /\ k + 1 \in DOMAIN proxy.attempts =>
              proxy.attempts[k + 1].began - proxy.attempts[k].ended = proxy.delays[k]

\* maxRetries has its default and every attempt has failed
DefaultExhausted ==
    proxy.pc = "done" /\ AllFailed /\ proxy.maxRetries = maxRetriesDefault

====
